---------------------------- MODULE Spec2Model ----------------------------
(***************************************************************************)
(* Variable states of the CPU plugin (memory_state.cpp): the ping-pong     *)
(* VariableStateDoubleBuffer, the in-place VariableStateSingleBuffer and   *)
(* the beam-reordering VariableStateKVcache, driven by one caller that     *)
(* invokes set_state / get_state / reset / commit and the assign hooks.    *)
(*                                                                         *)
(* A memory object is a record [dims, order, prc, data]: dims are the      *)
(* logical dims, order the blocked descriptor's dimension order (0-based,  *)
(* outermost first), prc the element precision and data the elements in    *)
(* physical (dense, order-permuted) sequence.  Element values are          *)
(* integers; a precision conversion changes them as the target precision   *)
(* demands (f16 keeps 11 significant bits).                                *)
(***************************************************************************)
EXTENDS Integers, Sequences, FiniteSets, TLC

\* ------------------------------------------------------------------ bounds
\* Largest extent of a dynamic dimension of a Double/SingleBuffer tensor.
MaxDim == 2
\* Largest history length L of a KV-cache tensor.
MaxLen == 2
\* Largest batch B of a KV-cache tensor.
MaxBatch == 2
\* Number of commit() calls counted on a DoubleBuffer.
MaxCommits == 3

\* Shape::UNDEFINED_DIM
UNDEFINED_DIM == -1

\* ------------------------------------------------------------- arithmetic
At(seq, i) == seq[i + 1]

RECURSIVE ProdFrom(_, _)
ProdFrom(seq, i) == IF i > Len(seq) THEN 1 ELSE seq[i] * ProdFrom(seq, i + 1)

\* Shape::getElementsCount
ElementsCount(dims) == ProdFrom(dims, 1)

PlainOrder(rank) == [i \in 1..rank |-> i - 1]

\* a sequence given as a function, with its elements computed
AsTuple(f) == f \o <<>>

\* BlockedMemoryDesc: the dims in physical order
BlockDims(dims, order) == AsTuple([i \in 1..Len(order) |-> At(dims, order[i])])

\* position of logical dimension d (0-based) in order
PosOf(order, d) == CHOOSE i \in 1..Len(order) : order[i] = d

\* BlockedMemoryDesc: the dense stride of every logical dimension
Strides(dims, order) ==
    LET bd == BlockDims(dims, order)
    IN  AsTuple([d \in 1..Len(dims) |-> ProdFrom(bd, PosOf(order, d - 1) + 1)])

RECURSIVE Dot(_, _, _)
Dot(idx, st, n) == IF n = 0 THEN 0 ELSE idx[n] * st[n] + Dot(idx, st, n - 1)

\* physical offset of the element with logical index idx (0-based), st the
\* strides of the logical dimensions
Offset(st, idx) == Dot(idx, st, Len(st))

\* logical index of the element at physical offset off of a dense layout
IndexAt(dims, st, off) ==
    AsTuple([d \in 1..Len(dims) |-> (off \div st[d]) % dims[d]])

IsDefined(dims) == \A i \in 1..Len(dims) : dims[i] # UNDEFINED_DIM

\* ------------------------------------------------------------- precisions
Abs(v) == IF v < 0 THEN -v ELSE v

\* round to nearest, ties to even, with 11 significant bits (integers below 4096)
RoundF16(v) ==
    LET a == Abs(v)
        r == IF a <= 2048 THEN a
             ELSE IF a % 2 = 0 THEN a
             ELSE IF (a + 1) % 4 = 0 THEN a + 1 ELSE a - 1
    IN  IF v < 0 THEN -r ELSE r

\* cpu_convert of one element
cpu_convert(src_prc, dst_prc, v) ==
    CASE dst_prc = "f16" -> RoundF16(v)
      [] dst_prc = "u8"  -> IF v < 0 THEN 0 ELSE IF v > 255 THEN 255 ELSE v
      [] OTHER           -> v

\* ------------------------------------------------------------ quantization
\* A scale, a zero point and a dequantized value are fractions <<n, d>>, d > 0,
\* in lowest terms.
RECURSIVE GCD(_, _)
GCD(a, b) == IF b = 0 THEN a ELSE GCD(b, a % b)

Rat(n, d) ==
    LET g == GCD(Abs(n), d)
    IN  <<n \div g, d \div g>>

RatSub(x, y) == Rat(x[1] * y[2] - y[1] * x[2], x[2] * y[2])

RatMul(x, y) == Rat(x[1] * y[1], x[2] * y[2])

\* x / y, y # 0
RatDiv(x, y) ==
    IF y[1] > 0 THEN Rat(x[1] * y[2], x[2] * y[1]) ELSE Rat(-(x[1] * y[2]), x[2] * (-y[1]))

\* std::round: to the nearest integer, halves away from zero
RatRound(x) ==
    LET r == (2 * Abs(x[1]) + x[2]) \div (2 * x[2])
    IN  IF x[1] < 0 THEN -r ELSE r

RECURSIVE MinOf(_, _)
MinOf(v, n) ==
    IF n = 1 THEN v[1] ELSE LET r == MinOf(v, n - 1) IN IF v[n] < r THEN v[n] ELSE r

RECURSIVE MaxOf(_, _)
MaxOf(v, n) ==
    IF n = 1 THEN v[1] ELSE LET r == MaxOf(v, n - 1) IN IF v[n] > r THEN v[n] ELSE r

\* quant_u8: the scale of the values v, (max - min) / 255, or 0.0001 when
\* they are all equal
QuantScale(v) ==
    LET range == MaxOf(v, Len(v)) - MinOf(v, Len(v))
    IN  IF range = 0 THEN <<1, 10000>> ELSE Rat(range, 255)

\* quant_u8: the zero point of the values v, -min / scale
QuantZp(v) == RatDiv(<<-MinOf(v, Len(v)), 1>>, QuantScale(v))

\* quant_u8: the stored byte of x, round(x / scale + zp)
Quantize(x, scale, zp) ==
    LET q == RatRound(RatSub(RatDiv(<<x, 1>>, scale), RatSub(<<0, 1>>, zp)))
    IN  IF q < 0 THEN 0 ELSE IF q > 255 THEN 255 ELSE q

\* attn_dequant_u8: (stored - zp) * scale
Dequantize(q, scale, zp) == RatMul(RatSub(<<q, 1>>, zp), scale)

\* ---------------------------------------------------------- memory objects
Null == [dims |-> <<>>, order |-> <<>>, prc |-> "null", data |-> <<>>]

IsNull(mem) == mem.prc = "null"

Desc(shape, order, prc) == [shape |-> shape, order |-> order, prc |-> prc]

\* Memory::getDescPtr
getDesc(mem) == Desc(mem.dims, mem.order, mem.prc)

\* MemoryDesc::cloneWithNewDims
cloneWithNewDims(desc, dims) == [desc EXCEPT !.shape = dims]

\* Shape::isCompatible: the rank and every defined dimension agree
isCompatibleDims(shape, dims) ==
    /\ Len(shape) = Len(dims)
    /\ \A i \in 1..Len(shape) : shape[i] = UNDEFINED_DIM \/ shape[i] = dims[i]

\* MemoryDesc::cloneWithNewDims(dims) throws: dims do not fit the shape
cloneThrows(desc, dims) == ~isCompatibleDims(desc.shape, dims)

\* MemoryDesc::cloneWithNewPrecision
cloneWithNewPrecision(desc, prc) == [desc EXCEPT !.prc = prc]

\* MemoryDesc::isCompatible
isCompatible(d1, d2) == d1 = d2

\* element of mem with logical index idx
Elem(mem, idx) == At(mem.data, Offset(Strides(mem.dims, mem.order), idx))

\* std::make_shared<Memory>(engine, desc): storage not yet written
NewMemory(desc) ==
    [dims  |-> desc.shape,
     order |-> desc.order,
     prc   |-> desc.prc,
     data  |-> IF IsDefined(desc.shape)
               THEN [k \in 1..ElementsCount(desc.shape) |-> -999]
               ELSE <<>>]

\* Memory::redefineDesc
redefineDesc(mem, desc) == NewMemory(desc)

\* Memory::nullify
nullify(mem) == [mem EXCEPT !.data = [k \in 1..Len(mem.data) |-> 0]]

\* Memory::load(src, true, false): reorder with precision conversion
load(dst, src) ==
    LET dst_st == Strides(dst.dims, dst.order)
        src_st == Strides(src.dims, src.order)
    IN  [dst EXCEPT !.data =
            AsTuple([k \in 1..Len(dst.data) |->
                cpu_convert(src.prc, dst.prc,
                    At(src.data, Offset(src_st, IndexAt(dst.dims, dst_st, k - 1))))])]

\* the logical content of a memory object: its elements in plain order
Logical(mem) ==
    LET st    == Strides(mem.dims, mem.order)
        plain == Strides(mem.dims, PlainOrder(Len(mem.dims)))
    IN  AsTuple([k \in 1..Len(mem.data) |->
            At(mem.data, Offset(st, IndexAt(mem.dims, plain, k - 1)))])

\* ------------------------------------------------------------------ state
VARIABLES
    variant,            \* "DoubleBuffer", "SingleBuffer" or "KVcache"
    m_external_desc,    \* VariableStateBase::m_external_desc
    m_internal_desc,    \* m_internal_desc (KVcache: m_dense_internal_desc)
    m_internal_mem,     \* the buffers: two for a DoubleBuffer, else one
    buffer_num,         \* VariableStateDoubleBuffer::buffer_num
    reset_state_flag,   \* VariableStateBase::reset_state_flag
    m_hidden_state,     \* VariableStateKVcache::m_hidden_state (beam table)
    m_state,            \* VariableStateKVcache::m_state (retained input tensor)
    m_internal_mem_max_size,    \* VariableStateKVcache: capacity mark
    m_hidden_state_max_size,    \* VariableStateKVcache: capacity mark
    m_quant_by_channel, \* VariableStateKVcache::m_quant_by_channel
    m_group_size,       \* VariableStateKVcache::m_group_size
    m_scale_zp,         \* VariableStateKVcache::m_scale_zp
    m_internal_mem_ptr, \* VariableStateKVcache: the address m_internal_mem holds
    op,                 \* the last call made on the state
    arg,                \* the tensor of the last call when it was set_state
    ret,                \* the result of the last call when it was get_state
    nCommits,           \* commit() calls made on a DoubleBuffer so far
    sinceReset,         \* "reset" after reset(), "reset_commit" after commits
                        \* following it, "no" after set_state or an assign hook
    untouched,          \* no set_state and no assign hook was called so far
    held,               \* the tensor of an earlier get_state the caller kept
    loop                \* the parallel loop of the call that is running

vars == <<variant, m_external_desc, m_internal_desc, m_internal_mem, buffer_num,
          reset_state_flag, m_hidden_state, m_state, m_internal_mem_max_size,
          m_hidden_state_max_size, m_quant_by_channel, m_group_size, m_scale_zp,
          m_internal_mem_ptr, op, arg, ret, nCommits, sinceReset, untouched, held,
          loop>>

\* the fields of the state object
fields == <<variant, m_external_desc, m_internal_desc, m_internal_mem, buffer_num,
            reset_state_flag, m_hidden_state, m_state, m_internal_mem_max_size,
            m_hidden_state_max_size, m_quant_by_channel, m_group_size, m_scale_zp,
            m_internal_mem_ptr>>

\* the state object as a record of its fields; threw tells whether the call
\* that produced the record ended with an exception, crashed whether it
\* ended the process, and junk is what a read outside an allocation yields
\* during the call
Self ==
    [variant          |-> variant,
     m_external_desc  |-> m_external_desc,
     m_internal_desc  |-> m_internal_desc,
     m_internal_mem   |-> m_internal_mem,
     buffer_num       |-> buffer_num,
     reset_state_flag |-> reset_state_flag,
     m_hidden_state   |-> m_hidden_state,
     m_state          |-> m_state,
     m_internal_mem_max_size |-> m_internal_mem_max_size,
     m_hidden_state_max_size |-> m_hidden_state_max_size,
     m_quant_by_channel |-> m_quant_by_channel,
     m_group_size     |-> m_group_size,
     m_scale_zp       |-> m_scale_zp,
     m_internal_mem_ptr |-> m_internal_mem_ptr,
     threw            |-> FALSE,
     crashed          |-> FALSE,
     junk             |-> 0]

\* the fields of the state object become those of s
Becomes(s) ==
    /\ m_internal_mem' = s.m_internal_mem
    /\ buffer_num' = s.buffer_num
    /\ reset_state_flag' = s.reset_state_flag
    /\ m_hidden_state' = s.m_hidden_state
    /\ m_state' = s.m_state
    /\ m_internal_mem_max_size' = s.m_internal_mem_max_size
    /\ m_hidden_state_max_size' = s.m_hidden_state_max_size
    /\ m_scale_zp' = s.m_scale_zp
    /\ m_internal_mem_ptr' = s.m_internal_mem_ptr
    /\ UNCHANGED <<variant, m_external_desc, m_internal_desc, m_quant_by_channel,
                   m_group_size>>

\* addresses of Memory objects: none, the buffer the orchestrator owns and
\* assigns, and the heap that set_state allocates from
NullPtr == 0

OrchestratorPtr == 1

HeapPtrs == {2, 3}

\* an allocation handing out the object that is still held
make_shared_Same(held_ptr) == held_ptr

\* std::make_shared<Memory>: the address of a new object, which is none of
\* the objects alive at the call (held_ptr is still held during the call)
make_shared(held_ptr) == CHOOSE p \in HeapPtrs : p # held_ptr

\* a MemoryPtr held by the state is the index of the buffer it points to
Deref(s, p) == At(s.m_internal_mem, p)

Store(s, p, mem) == [s EXCEPT !.m_internal_mem[p + 1] = mem]

\* -------------------------------------------------------- VariableStateBase
\* to_static giving every undefined dimension the extent 1
to_static_One(desc) ==
    IF ~IsDefined(desc.shape)
    THEN cloneWithNewDims(desc,
            [i \in 1..Len(desc.shape) |->
                IF desc.shape[i] = UNDEFINED_DIM THEN 1 ELSE desc.shape[i]])
    ELSE desc

\* VariableStateBase::to_static
to_static(desc) ==
    IF ~IsDefined(desc.shape)
    THEN cloneWithNewDims(desc,
            [i \in 1..Len(desc.shape) |->
                IF desc.shape[i] = UNDEFINED_DIM THEN 0 ELSE desc.shape[i]])
    ELSE desc

\* VariableStateDoubleBuffer::prime_mem / second_mem
prime_mem(s) == s.buffer_num

second_mem(s) == (s.buffer_num + 1) % 2

\* input_mem() of the three variants
input_mem(s) == IF s.variant = "DoubleBuffer" THEN prime_mem(s) ELSE 0

\* output_mem() returning the prime buffer
output_mem_Prime(s) == IF s.variant = "DoubleBuffer" THEN prime_mem(s) ELSE 0

\* output_mem() returning what input_mem() returns
output_mem_Input(s) == input_mem(s)

\* output_mem() of the three variants
output_mem(s) == IF s.variant = "DoubleBuffer" THEN second_mem(s) ELSE 0

\* internal_state_mem() of the three variants
internal_state_mem(s) == IF s.variant = "DoubleBuffer" THEN prime_mem(s) ELSE 0

\* internal_desc() of the three variants
internal_desc(s) == s.m_internal_desc

\* set_state_impl with the tensor loaded into the output-role buffer
Base_set_state_impl_WritesOutput(s, state) ==
    LET p     == output_mem(s)
        shape == state.dims
        m0    == Deref(s, p)
        m1    == IF m0.dims # shape
                 THEN redefineDesc(m0, cloneWithNewDims(internal_desc(s), shape))
                 ELSE m0
    IN  IF m0.dims # shape /\ cloneThrows(internal_desc(s), shape)
        THEN [s EXCEPT !.threw = TRUE]
        ELSE [Store(s, p, load(m1, state)) EXCEPT !.reset_state_flag = FALSE]

\* set_state_impl giving the buffer in the output role the new dims too
Base_set_state_impl_ResizesBoth(s, state) ==
    LET p     == input_mem(s)
        q     == output_mem(s)
        shape == state.dims
        m0    == Deref(s, p)
        m1    == IF m0.dims # shape
                 THEN redefineDesc(m0, cloneWithNewDims(internal_desc(s), shape))
                 ELSE m0
        done  == [Store(s, p, load(m1, state)) EXCEPT !.reset_state_flag = FALSE]
    IN  IF m0.dims # shape /\ cloneThrows(internal_desc(s), shape)
        THEN [s EXCEPT !.threw = TRUE]
        ELSE IF q = p \/ Deref(s, q).dims = shape THEN done
        ELSE Store(done, q, redefineDesc(Deref(s, q), cloneWithNewDims(internal_desc(s), shape)))

\* VariableStateBase::set_state_impl
Base_set_state_impl(s, state) ==
    LET p     == input_mem(s)
        shape == state.dims
        m0    == Deref(s, p)
        m1    == IF m0.dims # shape
                 THEN redefineDesc(m0, cloneWithNewDims(internal_desc(s), shape))
                 ELSE m0
    IN  IF m0.dims # shape /\ cloneThrows(internal_desc(s), shape)
        THEN [s EXCEPT !.threw = TRUE]
        ELSE [Store(s, p, load(m1, state)) EXCEPT !.reset_state_flag = FALSE]

\* results of get_state: a tensor, or the failure of the call
\* a tensor that owns its memory wraps none of the state's buffers
NoAlias == -1

NoResult == [status |-> "none", path |-> "none", mem |-> Null, alias |-> NoAlias]

Failure == [status |-> "fail", path |-> "none", mem |-> Null, alias |-> NoAlias]

\* std::make_shared<Tensor>(mem) of a Memory made by the call
Result(path, mem) == [status |-> "ok", path |-> path, mem |-> mem, alias |-> NoAlias]

\* the view path handing out a copy of the buffer
ViewOf_Copy(s, p) == Result("view", Deref(s, p))

\* std::make_shared<Tensor>(internal_state_mem()): the tensor wraps the
\* Memory object p of the state
ViewOf(s, p) == [status |-> "ok", path |-> "view", mem |-> Deref(s, p), alias |-> p]

\* cpu_convert of a whole buffer into a new memory of descriptor desc
ConvertInto(desc, src) ==
    [NewMemory(desc) EXCEPT !.data =
        AsTuple([k \in 1..Len(src.data) |-> cpu_convert(src.prc, desc.prc, src.data[k])])]

\* get_state trying the precision conversion before the view
Base_get_state_ConvertFirst(s) ==
    LET m == Deref(s, internal_state_mem(s))
    IN  IF ~IsDefined(m.dims) THEN Failure
        ELSE
        LET current_ext_desc      == cloneWithNewDims(s.m_external_desc, m.dims)
            current_internal_desc == getDesc(m)
            tmp_desc == cloneWithNewPrecision(current_ext_desc, current_internal_desc.prc)
        IN  IF isCompatible(tmp_desc, current_internal_desc)
            THEN Result("convert", ConvertInto(current_ext_desc, m))
            ELSE IF isCompatible(current_ext_desc, current_internal_desc)
            THEN ViewOf(s, internal_state_mem(s))
            ELSE Result("reorder", load(NewMemory(current_ext_desc), m))

\* VariableStateBase::get_state
Base_get_state(s) ==
    LET m == Deref(s, internal_state_mem(s))
    IN  IF ~IsDefined(m.dims) THEN Failure
        ELSE
        LET current_ext_desc      == cloneWithNewDims(s.m_external_desc, m.dims)
            current_internal_desc == getDesc(m)
            tmp_desc == cloneWithNewPrecision(current_ext_desc, current_internal_desc.prc)
        IN  IF isCompatible(current_ext_desc, current_internal_desc)
            THEN ViewOf(s, internal_state_mem(s))
            ELSE IF isCompatible(tmp_desc, current_internal_desc)
            THEN Result("convert", ConvertInto(current_ext_desc, m))
            ELSE Result("reorder", load(NewMemory(current_ext_desc), m))

\* is_reset_state that never reports the flag
is_reset_state_Never(s) == FALSE

\* VariableStateBase::is_reset_state
is_reset_state(s) == s.reset_state_flag

\* ------------------------------------------- VariableStateDoubleBuffer etc.
\* reset_impl that redefines the buffers and does not zero them
Buffer_reset_impl_NoNullify(s) ==
    LET new_desc == to_static(s.m_internal_desc)
    IN  [s EXCEPT !.m_internal_mem =
            [i \in 1..Len(s.m_internal_mem) |->
                IF IsNull(s.m_internal_mem[i]) THEN s.m_internal_mem[i]
                ELSE redefineDesc(s.m_internal_mem[i], new_desc)]]

\* reset_impl that resets the prime buffer only
Buffer_reset_impl_PrimeOnly(s) ==
    LET new_desc == to_static(s.m_internal_desc)
        p        == internal_state_mem(s)
    IN  Store(s, p, nullify(redefineDesc(Deref(s, p), new_desc)))

\* reset_impl that resets the output-role buffer only
Buffer_reset_impl_OutputOnly(s) ==
    LET new_desc == to_static(s.m_internal_desc)
        p        == output_mem(s)
    IN  Store(s, p, nullify(redefineDesc(Deref(s, p), new_desc)))

\* VariableStateDoubleBuffer::reset_impl, VariableStateSingleBuffer::reset_impl
Buffer_reset_impl(s) ==
    LET new_desc == to_static(s.m_internal_desc)
    IN  [s EXCEPT !.m_internal_mem =
            [i \in 1..Len(s.m_internal_mem) |->
                IF IsNull(s.m_internal_mem[i]) THEN s.m_internal_mem[i]
                ELSE nullify(redefineDesc(s.m_internal_mem[i], new_desc))]]

\* commit_impl with |= in place of ^=
DoubleBuffer_commit_impl_Or(s) == [s EXCEPT !.buffer_num = 1]

\* VariableStateDoubleBuffer::commit_impl
DoubleBuffer_commit_impl(s) == [s EXCEPT !.buffer_num = (s.buffer_num + 1) % 2]

\* an empty reset_impl or commit_impl that zeroes the buffers it finds
Nothing_impl_Nullify(s) ==
    [s EXCEPT !.m_internal_mem =
        [i \in 1..Len(s.m_internal_mem) |-> nullify(s.m_internal_mem[i])]]

\* VariableStateSingleBuffer::commit_impl, VariableStateKVcache::commit_impl
Nothing_impl(s) == s

\* ----------------------------------------------------- VariableStateKVcache
\* Number of heads H and row size S of a KV-cache tensor.
Heads == 2
Size == 2

\* PlainTensor::permute(order): the logical index of the permuted coordinates c
Unpermute(order, c) == [d \in 1..Len(order) |-> c[PosOf(order, d - 1)]]

\* PlainTensor::permute(order): the strides of the permuted dimensions
PermutedStrides(mem, order) ==
    LET st == Strides(mem.dims, mem.order)
    IN  AsTuple([i \in 1..Len(order) |-> At(st, order[i])])

\* PlainTensor::permute(order): the sizes of the permuted dimensions
PermutedDims(mem, order) == AsTuple([i \in 1..Len(order) |-> At(mem.dims, order[i])])

\* an unchecked read at element offset off; g is what a read outside the
\* allocation yields
ReadAt(mem, off, g) ==
    IF off >= 0 /\ off < Len(mem.data) THEN At(mem.data, off) ELSE g

\* the beam table ignored: the row of batch b itself
BeamAt_Identity(hidden, b, m, g) == b

\* beam_table.at<int32_t>({b, m})
BeamAt(hidden, b, m, g) == ReadAt(hidden, b * hidden.dims[2] + m, g)

\* the row offset with the batch and head coordinates exchanged
RowOffset_Swapped(st, m, b, h, s) == m * st[1] + h * st[2] + b * st[3] + s * st[4]

\* offset of pastkv.ptr(m, b, h) + s, st the strides of the permuted buffer
RowOffset(st, m, b, h, s) == m * st[1] + b * st[2] + h * st[3] + s * st[4]

\* the assertions of get_state with the order and stride checks left out
KV_layout_asserted_RankOnly(s, mem, external_mem) ==
    /\ Len(mem.dims) = 4
    /\ Len(external_mem.dims) = 4

\* the assertions of VariableStateKVcache::get_state on the layouts of the
\* internal buffer and of the output tensor
KV_layout_asserted(s, mem, external_mem) ==
    /\ Len(mem.dims) = 4
    /\ Len(external_mem.dims) = 4
    /\ mem.order = s.m_internal_desc.order
    /\ PermutedStrides(mem, mem.order)[4] = 1
    /\ PermutedStrides(external_mem, mem.order)[4] = 1

\* an unchecked read of the scale and zero point table at index c
ScaleZpAt(table, c, g) ==
    IF IsNull(table) THEN <<g, 1>>
    ELSE LET off == Offset(Strides(table.dims, PlainOrder(4)), c)
         IN  IF off >= 0 /\ off < Len(table.data) THEN At(table.data, off) ELSE <<g, 1>>

\* the u8 branch of get_state dequantizing every element with the pair of
\* the first group
KV_dequantized_FirstGroup(s, mem, pastkv_st, m, b_kv, h, e, g) ==
    LET q == ReadAt(mem, RowOffset(pastkv_st, m, b_kv, h, e), g)
    IN  IF s.m_quant_by_channel
        THEN Dequantize(q, ScaleZpAt(s.m_scale_zp, <<0, b_kv, h, e>>, g),
                           ScaleZpAt(s.m_scale_zp, <<1, b_kv, h, e>>, g))
        ELSE Dequantize(q, ScaleZpAt(s.m_scale_zp, <<m, b_kv, h, 0>>, g),
                           ScaleZpAt(s.m_scale_zp, <<m, b_kv, h, 1>>, g))

\* the u8 branch of get_state: element e of row (m, b_kv, h) dequantized into
\* the scratch row; by group, an element past the last whole group is never
\* written
KV_dequantized(s, mem, pastkv_st, m, b_kv, h, e, g) ==
    LET G == s.m_group_size
        q == ReadAt(mem, RowOffset(pastkv_st, m, b_kv, h, e), g)
    IN  IF s.m_quant_by_channel
        THEN LET group_id == m \div G
             IN  Dequantize(q, ScaleZpAt(s.m_scale_zp, <<group_id * 2, b_kv, h, e>>, g),
                               ScaleZpAt(s.m_scale_zp, <<group_id * 2 + 1, b_kv, h, e>>, g))
        ELSE LET group_id == e \div G
             IN  IF group_id < PermutedDims(mem, mem.order)[4] \div G
                 THEN Dequantize(q, ScaleZpAt(s.m_scale_zp, <<m, b_kv, h, group_id * 2>>, g),
                                    ScaleZpAt(s.m_scale_zp, <<m, b_kv, h, group_id * 2 + 1>>, g))
                 ELSE <<g, 1>>

\* VariableStateKVcache::get_state
KV_get_state(s, g) ==
    LET mem    == Deref(s, 0)
        hidden == s.m_hidden_state
    IN  IF IsNull(mem) \/ IsNull(hidden) \/ is_reset_state(s)
        THEN Result("empty", NewMemory(to_static(s.m_external_desc)))
        ELSE IF cloneThrows(s.m_external_desc, mem.dims) THEN Failure
        ELSE
        LET actual_internal_desc == getDesc(mem)
            actual_external_desc == cloneWithNewDims(s.m_external_desc, mem.dims)
            external_mem          == NewMemory(actual_external_desc)
            order                 == actual_internal_desc.order
            pastkv_st             == PermutedStrides(mem, order)
            output_st             == PermutedStrides(external_mem, order)
            ext_st                == Strides(external_mem.dims, external_mem.order)
        IN  IF ~KV_layout_asserted(s, mem, external_mem) THEN Failure
            ELSE Result("reorder",
                [external_mem EXCEPT !.data =
                    AsTuple([k \in 1..Len(external_mem.data) |->
                        LET idx  == IndexAt(external_mem.dims, ext_st, k - 1)
                            m    == At(idx, order[1])
                            b    == At(idx, order[2])
                            h    == At(idx, order[3])
                            e    == At(idx, order[4])
                            b_kv == BeamAt(hidden, b, m, g)
                        IN  IF mem.prc = "u8"
                            THEN cpu_convert("f32", external_mem.prc,
                                    KV_dequantized(s, mem, pastkv_st, m, b_kv, h, e, g))
                            ELSE cpu_convert(mem.prc, external_mem.prc,
                                    ReadAt(mem, RowOffset(pastkv_st, m, b_kv, h, e), g))])])

\* whether the reorder loop of get_state reads outside the beam table,
\* outside the internal buffer, outside the scale and zero point table or a
\* scratch element it never wrote
KV_reads_outside(s) ==
    LET mem    == Deref(s, 0)
        hidden == s.m_hidden_state
        order  == mem.order
        size   == PermutedDims(mem, order)
        st     == PermutedStrides(mem, order)
        InRange(m0, off) == off >= 0 /\ off < Len(m0.data)
    IN  /\ KV_get_state(s, 0).path = "reorder"
        /\ \E m \in 0..(size[1] - 1), b \in 0..(size[2] - 1) :
              LET boff == b * hidden.dims[2] + m
              IN  \/ ~InRange(hidden, boff)
                  \/ \E h \in 0..(size[3] - 1), e \in 0..(size[4] - 1) :
                        LET b_kv == At(hidden.data, boff)
                            G    == s.m_group_size
                            ScaleZpInRange(c) ==
                                /\ ~IsNull(s.m_scale_zp)
                                /\ InRange(s.m_scale_zp,
                                     Offset(Strides(s.m_scale_zp.dims, PlainOrder(4)), c))
                        IN  \/ ~InRange(mem, RowOffset(st, m, b_kv, h, e))
                            \/ /\ mem.prc = "u8"
                               /\ IF s.m_quant_by_channel
                                  THEN ~ScaleZpInRange(<<(m \div G) * 2 + 1, b_kv, h, e>>)
                                  ELSE \/ e \div G >= size[4] \div G
                                       \/ ~ScaleZpInRange(<<m, b_kv, h, (e \div G) * 2 + 1>>)

\* the beam table filled with the column index: buff[i * size_L + j] = j
IdentityBeamTable_Column(size_B, size_L) ==
    [NewMemory(Desc(<<size_B, size_L>>, PlainOrder(2), "i32")) EXCEPT !.data =
        [k \in 1..(size_B * size_L) |-> (k - 1) % size_L]]

\* the identity beam table of set_state_impl: buff[i * size_L + j] = i
IdentityBeamTable(size_B, size_L) ==
    [NewMemory(Desc(<<size_B, size_L>>, PlainOrder(2), "i32")) EXCEPT !.data =
        [k \in 1..(size_B * size_L) |-> (k - 1) \div size_L]]

\* std::min
Min(a, b) == IF a < b THEN a ELSE b

\* the first row of the chunk of group group_id, at group_id * m_group_size
QuantChunkRow_GroupStart(group_id, valid_seq, group_size) == group_id * group_size

\* the row the by-channel branch of set_state_impl takes the chunk of group
\* group_id from: external.ptr_v(valid_seq, b, h)
QuantChunkRow(group_id, valid_seq, group_size) == valid_seq

\* by-channel branch: element (i, j) of the chunk of (group_id, b, h), read
\* as valid_seq * S consecutive elements of the caller's tensor
QuantChunkAt(s, state, ext_st, size, group_id, b, h, i, j) ==
    LET valid_seq == Min(s.m_group_size, size[1] - group_id * s.m_group_size)
        base      == QuantChunkRow(group_id, valid_seq, s.m_group_size) * ext_st[1]
                        + b * ext_st[2] + h * ext_st[3]
    IN  cpu_convert(state.prc, "f32", ReadAt(state, base + i * size[4] + j, s.junk))

\* by-channel branch: the values of channel j in the chunk of (group_id, b, h)
QuantChannel(s, state, ext_st, size, group_id, b, h, j) ==
    LET valid_seq == Min(s.m_group_size, size[1] - group_id * s.m_group_size)
    IN  AsTuple([i \in 1..valid_seq |->
            QuantChunkAt(s, state, ext_st, size, group_id, b, h, i - 1, j)])

\* by-group branch: the values of group group_id of row (m, b, h)
QuantGroup(s, state, ext_st, group_id, m, b, h) ==
    AsTuple([k \in 1..s.m_group_size |->
        cpu_convert(state.prc, "f32",
            ReadAt(state, m * ext_st[1] + b * ext_st[2] + h * ext_st[3]
                            + group_id * s.m_group_size + k - 1, s.junk))])

\* VariableStateKVcache::set_state_impl, the u8 branch: the quantized buffer;
\* a byte no group covers stays as allocated
KV_quantized_mem(s, state, dense_internal_desc) ==
    LET internal == NewMemory(dense_internal_desc)
        order    == s.m_internal_desc.order
        ext_st   == PermutedStrides(state, order)
        int_st   == Strides(internal.dims, internal.order)
        size     == PermutedDims(internal, order)
        G        == s.m_group_size
    IN  [internal EXCEPT !.data =
            AsTuple([k \in 1..Len(internal.data) |->
                LET idx == IndexAt(internal.dims, int_st, k - 1)
                    m   == At(idx, order[1])
                    b   == At(idx, order[2])
                    h   == At(idx, order[3])
                    e   == At(idx, order[4])
                IN  IF s.m_quant_by_channel
                    THEN LET gid == m \div G
                             v   == QuantChannel(s, state, ext_st, size, gid, b, h, e)
                         IN  Quantize(QuantChunkAt(s, state, ext_st, size, gid, b, h,
                                                   m - gid * G, e),
                                      QuantScale(v), QuantZp(v))
                    ELSE LET gid == e \div G
                             v   == QuantGroup(s, state, ext_st, gid, m, b, h)
                         IN  IF gid < size[4] \div G
                             THEN Quantize(v[e - gid * G + 1], QuantScale(v), QuantZp(v))
                             ELSE internal.data[k]])]

\* m_scale_zp.resize<float>(dims): floats not yet written, as fractions
NewScaleZp(dims) ==
    [NewMemory(Desc(dims, PlainOrder(4), "f32")) EXCEPT !.data =
        [k \in 1..ElementsCount(dims) |-> <<-999, 1>>]]

\* VariableStateKVcache::set_state_impl, the u8 branch: the scale and zero
\* point table, [2*groups, B, H, S] by channel and [L0, B, H, 2*S/G] by group;
\* by group a column past the last whole group stays as allocated
KV_quantized_scale_zp(s, state, dense_internal_desc) ==
    LET internal == NewMemory(dense_internal_desc)
        order    == s.m_internal_desc.order
        ext_st   == PermutedStrides(state, order)
        size     == PermutedDims(internal, order)
        G        == s.m_group_size
        dims     == IF s.m_quant_by_channel
                    THEN <<2 * ((size[1] + G - 1) \div G), size[2], size[3], size[4]>>
                    ELSE <<size[1], size[2], size[3], (2 * size[4]) \div G>>
        table    == NewScaleZp(dims)
        st       == Strides(dims, PlainOrder(4))
    IN  [table EXCEPT !.data =
            AsTuple([k \in 1..Len(table.data) |->
                LET c == IndexAt(dims, st, k - 1)
                IN  IF s.m_quant_by_channel
                    THEN LET v == QuantChannel(s, state, ext_st, size, c[1] \div 2,
                                               c[2], c[3], c[4])
                         IN  IF c[1] % 2 = 0 THEN QuantScale(v) ELSE QuantZp(v)
                    ELSE LET v == QuantGroup(s, state, ext_st, c[4] \div 2,
                                             c[1], c[2], c[3])
                         IN  IF c[4] \div 2 >= size[4] \div G THEN table.data[k]
                             ELSE IF c[4] % 2 = 0 THEN QuantScale(v) ELSE QuantZp(v)])]

\* whether the u8 branch of set_state_impl reads outside the caller's tensor
KV_quant_reads_outside(s, state) ==
    /\ s.variant = "KVcache"
    /\ s.m_internal_desc.prc = "u8"
    /\ ~cloneThrows(s.m_internal_desc, state.dims)
    /\ LET order  == s.m_internal_desc.order
           ext_st == PermutedStrides(state, order)
           size   == PermutedDims(state, order)
           G      == s.m_group_size
       IN  IF s.m_quant_by_channel
           THEN \E gid \in 0..(((size[1] + G - 1) \div G) - 1),
                   b \in 0..(size[2] - 1), h \in 0..(size[3] - 1) :
                    LET valid_seq == Min(G, size[1] - gid * G)
                    IN  QuantChunkRow(gid, valid_seq, G) * ext_st[1] + b * ext_st[2]
                            + h * ext_st[3] + valid_seq * size[4] > Len(state.data)
           ELSE FALSE

\* set_state_impl dropping the buffer it holds before the new descriptor is made
KV_set_state_impl_DropsFirst(s, state) ==
    LET state_desc          == getDesc(state)
        dense_internal_desc == cloneWithNewDims(s.m_internal_desc, state_desc.shape)
        new_mem             == IF dense_internal_desc.prc = "u8"
                               THEN KV_quantized_mem(s, state, dense_internal_desc)
                               ELSE load(NewMemory(dense_internal_desc), state)
        state_dims          == dense_internal_desc.shape
        order               == s.m_internal_desc.order
        size_B              == At(state_dims, order[2])
        size_L              == At(state_dims, order[1])
    IN  IF cloneThrows(s.m_internal_desc, state_desc.shape)
        THEN [s EXCEPT !.m_state = state, !.m_internal_mem = <<Null>>, !.threw = TRUE]
        ELSE
        [s EXCEPT !.m_state = state,
                  !.m_internal_mem = <<new_mem>>,
                  !.m_internal_mem_ptr = make_shared(s.m_internal_mem_ptr),
                  !.m_scale_zp = IF dense_internal_desc.prc = "u8"
                                 THEN KV_quantized_scale_zp(s, state, dense_internal_desc)
                                 ELSE s.m_scale_zp,
                  !.m_hidden_state = IdentityBeamTable(size_B, size_L),
                  !.m_internal_mem_max_size = ElementsCount(dense_internal_desc.shape),
                  !.m_hidden_state_max_size = ElementsCount(<<size_B, size_L>>)]

\* VariableStateKVcache::set_state_impl
KV_set_state_impl(s, state) ==
    LET state_desc          == getDesc(state)
        dense_internal_desc == cloneWithNewDims(s.m_internal_desc, state_desc.shape)
        new_mem             == IF dense_internal_desc.prc = "u8"
                               THEN KV_quantized_mem(s, state, dense_internal_desc)
                               ELSE load(NewMemory(dense_internal_desc), state)
        state_dims          == dense_internal_desc.shape
        order               == s.m_internal_desc.order
        size_B              == At(state_dims, order[2])
        size_L              == At(state_dims, order[1])
    IN  IF cloneThrows(s.m_internal_desc, state_desc.shape)
        THEN [s EXCEPT !.m_state = state, !.threw = TRUE]
        ELSE
        [s EXCEPT !.m_state = state,
                  !.m_internal_mem = <<new_mem>>,
                  !.m_internal_mem_ptr = make_shared(s.m_internal_mem_ptr),
                  !.m_scale_zp = IF dense_internal_desc.prc = "u8"
                                 THEN KV_quantized_scale_zp(s, state, dense_internal_desc)
                                 ELSE s.m_scale_zp,
                  !.m_hidden_state = IdentityBeamTable(size_B, size_L),
                  !.m_internal_mem_max_size = ElementsCount(dense_internal_desc.shape),
                  !.m_hidden_state_max_size = ElementsCount(<<size_B, size_L>>)]

\* the constructor accepting any shape
VariableStateKVcache_AnyShape(external_desc, dense_internal_desc, quant_by_channel, group_size) ==
    [variant          |-> "KVcache",
     m_external_desc  |-> external_desc,
     m_internal_desc  |-> dense_internal_desc,
     m_internal_mem   |-> <<Null>>,
     buffer_num       |-> 0,
     reset_state_flag |-> FALSE,
     m_hidden_state   |-> Null,
     m_state          |-> Null,
     m_internal_mem_max_size |-> 0,
     m_hidden_state_max_size |-> 0,
     m_quant_by_channel |-> quant_by_channel,
     m_group_size     |-> group_size,
     m_scale_zp       |-> Null,
     m_internal_mem_ptr |-> NullPtr,
     threw            |-> FALSE,
     crashed          |-> FALSE,
     junk             |-> 0]

\* VariableStateKVcache::VariableStateKVcache; the constructor throws when
\* the external shape is not dynamic
VariableStateKVcache(external_desc, dense_internal_desc, quant_by_channel, group_size) ==
    [variant          |-> "KVcache",
     m_external_desc  |-> external_desc,
     m_internal_desc  |-> dense_internal_desc,
     m_internal_mem   |-> <<Null>>,
     buffer_num       |-> 0,
     reset_state_flag |-> FALSE,
     m_hidden_state   |-> Null,
     m_state          |-> Null,
     m_internal_mem_max_size |-> 0,
     m_hidden_state_max_size |-> 0,
     m_quant_by_channel |-> quant_by_channel,
     m_group_size     |-> group_size,
     m_scale_zp       |-> Null,
     m_internal_mem_ptr |-> NullPtr,
     threw            |-> IsDefined(external_desc.shape),
     crashed          |-> FALSE,
     junk             |-> 0]

\* assign_internal_state recording the size of the buffer it is given
assign_internal_state_Marks(s, mem) ==
    [s EXCEPT !.m_internal_mem = <<mem>>,
              !.m_internal_mem_ptr = IF IsNull(mem) THEN NullPtr ELSE OrchestratorPtr,
              !.m_internal_mem_max_size = Len(mem.data)]

\* VariableStateKVcache::assign_internal_state
assign_internal_state(s, mem) ==
    [s EXCEPT !.m_internal_mem = <<mem>>,
              !.m_internal_mem_ptr = IF IsNull(mem) THEN NullPtr ELSE OrchestratorPtr]

\* VariableStateKVcache::assign_hidden_state
assign_hidden_state(s, mem) == [s EXCEPT !.m_hidden_state = mem]

\* ------------------------------------------------------ the public interface
set_state_impl(s, state) ==
    IF s.variant = "KVcache" THEN KV_set_state_impl(s, state)
    ELSE Base_set_state_impl(s, state)

\* reset_impl of a KV cache allocating an empty buffer as the other variants do
reset_impl_Allocates(s) ==
    IF s.variant = "KVcache"
    THEN [s EXCEPT !.m_internal_mem = <<nullify(NewMemory(to_static(s.m_internal_desc)))>>]
    ELSE Buffer_reset_impl(s)

reset_impl(s) == IF s.variant = "KVcache" THEN Nothing_impl(s) ELSE Buffer_reset_impl(s)

commit_impl(s) ==
    IF s.variant = "DoubleBuffer" THEN DoubleBuffer_commit_impl(s) ELSE Nothing_impl(s)

\* VariableStateBase::set_state
set_state(s, state) ==
    LET done == set_state_impl(s, state)
    IN  IF done.threw THEN done ELSE [done EXCEPT !.reset_state_flag = FALSE]

\* reset() toggling the flag
reset_Toggle(s) == [reset_impl(s) EXCEPT !.reset_state_flag = ~s.reset_state_flag]

\* VariableStateBase::reset
reset(s) == [reset_impl(s) EXCEPT !.reset_state_flag = TRUE]

\* commit() leaving the flag as it is
commit_KeepsFlag(s) == commit_impl(s)

\* VariableStateBase::commit
commit(s) == [commit_impl(s) EXCEPT !.reset_state_flag = FALSE]

\* get_state() of the three variants
get_state(s, g) ==
    IF s.variant = "KVcache" THEN KV_get_state(s, g) ELSE Base_get_state(s)

\* ------------------------------------------------------------ configurations
Precisions == {"f32", "f16"}

\* shapes of a Double/SingleBuffer state: dynamic first dimension, or static
BufferShapes == {<<UNDEFINED_DIM, 2>>, <<1, 2>>}

BufferOrders == {<<0, 1>>, <<1, 0>>}

\* dense internal orders of a KV cache: external [L,B,H,S] or [B,H,L,S]
KvOrders == {<<0, 1, 2, 3>>, <<2, 0, 1, 3>>}

\* first element values of the tensors the caller supplies
Bases == {1, 2047}

\* first element value of the tensors the caller supplies to a KV cache: the
\* elements straddle 2048, above which f16 holds only the even integers
KvBase == 2047

\* what a read outside an allocation may yield
Garbage == {-7, 7}

\* a caller's tensor: plain layout, elements base, base+1, ... in precision prc
Tensor(dims, prc, base) ==
    [dims  |-> dims,
     order |-> PlainOrder(Len(dims)),
     prc   |-> prc,
     data  |-> [k \in 1..ElementsCount(dims) |-> cpu_convert("f32", prc, base + k - 1)]]

\* external dims of a KV tensor of logical shape [L,B,H,S]
KvDims(order, L, B) == Unpermute(order, <<L, B, Heads, Size>>)

\* external dims of a KV tensor of length L and batch B for the state s,
\* heads and size as in its external descriptor
KvTensorDims(s, L, B) ==
    LET order == s.m_internal_desc.order
    IN  Unpermute(order, <<L, B, At(s.m_external_desc.shape, order[3]),
                           At(s.m_external_desc.shape, order[4])>>)

\* the tensors compatible with the external descriptor of s
CompatibleTensors(s) ==
    IF s.variant = "KVcache"
    THEN {T \in {Tensor(KvTensorDims(s, L, B), s.m_external_desc.prc,
                        KvBase) : L \in 0..MaxLen, B \in 1..MaxBatch} :
            isCompatibleDims(s.m_external_desc.shape, T.dims)}
    ELSE {Tensor([i \in 1..Len(s.m_external_desc.shape) |->
                    IF s.m_external_desc.shape[i] = UNDEFINED_DIM
                    THEN n ELSE s.m_external_desc.shape[i]],
                 s.m_external_desc.prc, base) :
            n \in 0..MaxDim, base \in Bases}

\* a tensor of another rank than the external descriptor of s
IncompatibleTensors(s) ==
    LET shape == s.m_external_desc.shape
    IN  {Tensor([i \in 1..(Len(shape) - 1) |->
                    IF shape[i + 1] = UNDEFINED_DIM THEN 1 ELSE shape[i + 1]],
                s.m_external_desc.prc, 1)}

\* the buffers the orchestrator may hand to assign_internal_state: none, or
\* a dense internal buffer of logical shape [L,B,H,S]
AssignableBuffers(s) ==
    {Null} \cup
    {load(NewMemory(cloneWithNewDims(s.m_internal_desc, T.dims)), T) :
        T \in {U \in {Tensor(KvDims(s.m_internal_desc.order, n[1], n[2]),
                             s.m_external_desc.prc, 1) :
                        n \in {<<1, 1>>, <<MaxLen, MaxBatch>>}} :
                 isCompatibleDims(s.m_internal_desc.shape, U.dims)}}

\* buffers that are not laid out as the dense internal descriptor of s: one
\* of rank 3, one in another dimension order
MalformedBuffers(s) ==
    {nullify(NewMemory(Desc(<<1, Heads, Size>>, PlainOrder(3), s.m_internal_desc.prc))),
     nullify(NewMemory(Desc(KvDims(s.m_internal_desc.order, 1, 1),
                            IF s.m_internal_desc.order = PlainOrder(4)
                            THEN <<2, 0, 1, 3>> ELSE PlainOrder(4),
                            s.m_internal_desc.prc)))}

\* the beam tables the orchestrator may hand to assign_hidden_state: none, or
\* a [B,L] table with entries in [0,B)
BeamPatterns == {"swap", "skew"}

BeamTable(B, L, pattern) ==
    [NewMemory(Desc(<<B, L>>, PlainOrder(2), "i32")) EXCEPT !.data =
        [k \in 1..(B * L) |->
            LET b == (k - 1) \div L
                l == (k - 1) % L
            IN  CASE pattern = "swap" -> B - 1 - b
                  [] OTHER            -> (b + l) % B]]

AssignableBeamTables ==
    {Null} \cup
    {BeamTable(1, 1, "swap")} \cup
    {BeamTable(MaxBatch, MaxLen, pattern) : pattern \in BeamPatterns}

\* a buffer as the orchestrator allocates it: storage not written, or zeroed
RawBuffers(desc) ==
    IF IsDefined(desc.shape)
    THEN {NewMemory(desc), nullify(NewMemory(desc))}
    ELSE {NewMemory(desc)}

\* the constructors' treatment of the (prime) buffer
Constructed(mem, desc) ==
    IF IsDefined(desc.shape) THEN nullify(mem)
    ELSE redefineDesc(mem, to_static(desc))

\* ---------------------------------------------------------- parallel loops
\* splitter(n, team, tid): the first iteration of worker tid of team
splitter_start(n, team, tid) ==
    IF team <= 1 \/ n = 0 THEN 0
    ELSE LET n1 == (n + team - 1) \div team
             n2 == n1 - 1
             T1 == n - n2 * team
         IN  IF tid <= T1 THEN tid * n1 ELSE T1 * n1 + (tid - T1) * n2

\* splitter(n, team, tid): one past the last iteration of worker tid
splitter_end(n, team, tid) ==
    IF team <= 1 \/ n = 0 THEN n
    ELSE LET n1 == (n + team - 1) \div team
             n2 == n1 - 1
             T1 == n - n2 * team
         IN  splitter_start(n, team, tid) + (IF tid < T1 THEN n1 ELSE n2)

\* no call is under way
NoLoop == [call |-> "none"]

\* the process died inside a parallel loop
Crashed == [call |-> "crashed"]

\* Largest number of threads parallel_get_max_threads() reports.
MaxWorkers == 2

\* one scratch buffer used by every thread
ScratchOf_Shared(ithr) == 0

\* buffers[ithr]: the scratch buffer of thread ithr
ScratchOf(ithr) == ithr

\* parallel_for3d(D0, D1, D2, ...) started with max_threads threads: the
\* team is the threads that get work, worker ithr runs the iterations
\* next[ithr + 1] .. last[ithr + 1] - 1 in this order; scratch is the
\* vector `buffers`, one entry per thread; hits counts the executions of
\* every iteration, mem_writes and tab_writes the writes to every element of
\* the internal buffer and of the scale and zero point table
parallel_for3d(call, D, max_threads, out, junk) ==
    LET work_amount == D[1] * D[2] * D[3]
        nthr        == Min(max_threads, work_amount)
    IN  [call    |-> call,
         D       |-> D,
         nthr    |-> nthr,
         next    |-> [w \in 1..nthr |-> splitter_start(work_amount, nthr, w - 1)],
         last    |-> [w \in 1..nthr |-> splitter_end(work_amount, nthr, w - 1)],
         phase   |-> [w \in 1..nthr |-> 0],
         scratch |-> [w \in 1..max_threads |-> <<>>],
         out     |-> out,
         junk    |-> junk,
         hits    |-> [k \in 1..work_amount |-> 0],
         mem_writes |-> <<>>,
         tab_writes |-> <<>>]

\* the (d0, d1, d2) of iteration k
IterationAt(D, k) == IndexAt(D, Strides(D, PlainOrder(3)), k)

\* get_state, the body of an iteration (m, b, h) up to the conversion: the
\* row it is going to convert, dequantized into the scratch buffer (u8) or
\* the S elements at pastkv.ptr_v(m, b_kv, h)
KV_get_state_row(s, m, b, h, g) ==
    LET mem       == Deref(s, 0)
        order     == mem.order
        pastkv_st == PermutedStrides(mem, order)
        S         == PermutedDims(mem, order)[4]
        b_kv      == BeamAt(s.m_hidden_state, b, m, g)
    IN  AsTuple([e \in 1..S |->
            IF mem.prc = "u8"
            THEN KV_dequantized(s, mem, pastkv_st, m, b_kv, h, e - 1, g)
            ELSE ReadAt(mem, RowOffset(pastkv_st, m, b_kv, h, 0) + e - 1, g)])

\* the conversion storing every row of batch b and head h at step 0
KV_get_state_store_Step0(output, order, m, b, h, src_prc, row) ==
    LET output_st == PermutedStrides(output, order)
        base      == RowOffset(output_st, 0, b, h, 0)
    IN  [output EXCEPT !.data =
            AsTuple([k \in 1..Len(output.data) |->
                IF k - 1 >= base /\ k - 1 < base + Len(row)
                THEN cpu_convert(src_prc, output.prc, row[k - base])
                ELSE output.data[k]])]

\* cpu_convert(row, output.ptr_v(m, b, h), src_prc, output.m_dt, S)
KV_get_state_store(output, order, m, b, h, src_prc, row) ==
    LET output_st == PermutedStrides(output, order)
        base      == RowOffset(output_st, m, b, h, 0)
    IN  [output EXCEPT !.data =
            AsTuple([k \in 1..Len(output.data) |->
                IF k - 1 >= base /\ k - 1 < base + Len(row)
                THEN cpu_convert(src_prc, output.prc, row[k - base])
                ELSE output.data[k]])]

\* whether iteration (m, b, h) of get_state reads outside the beam table,
\* the internal buffer or the scale and zero point table
KV_iteration_reads_outside(s, m, b, h) ==
    LET mem    == Deref(s, 0)
        hidden == s.m_hidden_state
        order  == mem.order
        size   == PermutedDims(mem, order)
        st     == PermutedStrides(mem, order)
        G      == s.m_group_size
        boff   == b * hidden.dims[2] + m
        InRange(m0, off) == off >= 0 /\ off < Len(m0.data)
        ScaleZpInRange(c) ==
            /\ ~IsNull(s.m_scale_zp)
            /\ InRange(s.m_scale_zp, Offset(Strides(s.m_scale_zp.dims, PlainOrder(4)), c))
    IN  IF ~InRange(hidden, boff) THEN TRUE
        ELSE \E e \in 0..(size[4] - 1) :
              LET b_kv == At(hidden.data, boff)
              IN  \/ ~InRange(mem, RowOffset(st, m, b_kv, h, e))
                  \/ /\ mem.prc = "u8"
                     /\ IF s.m_quant_by_channel
                        THEN ~ScaleZpInRange(<<(m \div G) * 2 + 1, b_kv, h, e>>)
                        ELSE \/ e \div G >= size[4] \div G
                             \/ ~ScaleZpInRange(<<m, b_kv, h, (e \div G) * 2 + 1>>)

\* the dims of the scale and zero point table set_state_impl resizes to
KV_scale_zp_dims(s, size) ==
    LET G == s.m_group_size
    IN  IF s.m_quant_by_channel
        THEN <<2 * ((size[1] + G - 1) \div G), size[2], size[3], size[4]>>
        ELSE <<size[1], size[2], size[3], (2 * size[4]) \div G>>

\* the iteration space of the u8 branch of set_state_impl
KV_set_state_space(s, size) ==
    LET G == s.m_group_size
    IN  IF s.m_quant_by_channel
        THEN <<(size[1] + G - 1) \div G, size[2], size[3]>>
        ELSE <<size[2], size[3], size[1]>>

\* set_state_impl, the cpu_convert of an iteration it: the scratch buffer
\* filled from the caller's tensor, [valid_seq, S] by channel and [S] by group
KV_set_state_fill(s, state, it) ==
    LET order  == s.m_internal_desc.order
        ext_st == PermutedStrides(state, order)
        size   == PermutedDims(state, order)
        G      == s.m_group_size
        S      == size[4]
    IN  IF s.m_quant_by_channel
        THEN LET valid_seq == Min(G, size[1] - it[1] * G)
             IN  AsTuple([k \in 1..(valid_seq * S) |->
                    QuantChunkAt(s, state, ext_st, size, it[1], it[2], it[3],
                                 (k - 1) \div S, (k - 1) % S)])
        ELSE AsTuple([k \in 1..S |->
                cpu_convert(state.prc, "f32",
                    ReadAt(state, it[3] * ext_st[1] + it[1] * ext_st[2]
                                    + it[2] * ext_st[3] + k - 1, s.junk))])

\* the values one scale and zero point pair is computed from: by channel the
\* column e of the scratch chunk, by group the group of element e
KV_set_state_group(s, size, scratch, e) ==
    LET G == s.m_group_size
        S == size[4]
    IN  IF s.m_quant_by_channel
        THEN AsTuple([i \in 1..(Len(scratch) \div S) |-> scratch[(i - 1) * S + e + 1]])
        ELSE AsTuple([k \in 1..G |-> scratch[(e \div G) * G + k]])

\* whether iteration it of set_state_impl writes element (m, b, h, e) of the
\* internal buffer
KV_set_state_writes(s, size, it, m, b, h, e) ==
    LET G == s.m_group_size
    IN  IF s.m_quant_by_channel
        THEN m \div G = it[1] /\ b = it[2] /\ h = it[3]
        ELSE b = it[1] /\ h = it[2] /\ m = it[3] /\ e \div G < size[4] \div G

\* whether iteration it of set_state_impl writes slot c of the table
KV_set_state_writes_slot(s, size, it, c) ==
    LET G == s.m_group_size
    IN  IF s.m_quant_by_channel
        THEN c[1] \div 2 = it[1] /\ c[2] = it[2] /\ c[3] = it[3]
        ELSE /\ c[2] = it[1] /\ c[3] = it[2] /\ c[1] = it[3]
             /\ c[4] \div 2 < size[4] \div G

\* attn_quant_by_channel_u8 / attn_quant_u8 of iteration it: the internal
\* buffer with the quantized scratch stored
KV_set_state_store(s, internal, it, scratch) ==
    LET order  == s.m_internal_desc.order
        int_st == Strides(internal.dims, internal.order)
        size   == PermutedDims(internal, order)
        G      == s.m_group_size
        S      == size[4]
    IN  [internal EXCEPT !.data =
            AsTuple([k \in 1..Len(internal.data) |->
                LET idx == IndexAt(internal.dims, int_st, k - 1)
                    m   == At(idx, order[1])
                    b   == At(idx, order[2])
                    h   == At(idx, order[3])
                    e   == At(idx, order[4])
                    v   == KV_set_state_group(s, size, scratch, e)
                    x   == IF s.m_quant_by_channel
                           THEN scratch[(m - it[1] * G) * S + e + 1]
                           ELSE scratch[e + 1]
                IN  IF KV_set_state_writes(s, size, it, m, b, h, e)
                    THEN Quantize(x, QuantScale(v), QuantZp(v))
                    ELSE internal.data[k]])]

\* attn_quant_by_channel_u8 / attn_quant_u8 of iteration it: the table with
\* the scales and zero points stored
KV_set_state_store_scale_zp(s, table, size, it, scratch) ==
    LET st == Strides(table.dims, PlainOrder(4))
    IN  [table EXCEPT !.data =
            AsTuple([k \in 1..Len(table.data) |->
                LET c == IndexAt(table.dims, st, k - 1)
                    v == IF s.m_quant_by_channel
                         THEN KV_set_state_group(s, size, scratch, c[4])
                         ELSE KV_set_state_group(s, size, scratch,
                                                 (c[4] \div 2) * s.m_group_size)
                    odd == IF s.m_quant_by_channel THEN c[1] % 2 ELSE c[4] % 2
                IN  IF KV_set_state_writes_slot(s, size, it, c)
                    THEN IF odd = 0 THEN QuantScale(v) ELSE QuantZp(v)
                    ELSE table.data[k]])]

\* whether iteration it of set_state_impl reads outside the caller's tensor
KV_set_state_reads_outside(s, state, it) ==
    LET order  == s.m_internal_desc.order
        ext_st == PermutedStrides(state, order)
        size   == PermutedDims(state, order)
        G      == s.m_group_size
        valid_seq == Min(G, size[1] - it[1] * G)
    IN  /\ s.m_quant_by_channel
        /\ QuantChunkRow(it[1], valid_seq, G) * ext_st[1] + it[2] * ext_st[2]
                + it[3] * ext_st[3] + valid_seq * size[4] > Len(state.data)

\* -------------------------------------------------------------------- Init
\* VariableStateDoubleBuffer::VariableStateDoubleBuffer
InitDoubleBuffer ==
    \E shape \in BufferShapes, order \in BufferOrders,
       ext_prc \in Precisions, int_prc \in Precisions :
        LET desc == Desc(shape, order, int_prc)
        IN  \E first_buffer \in RawBuffers(desc), second_buffer \in RawBuffers(desc) :
            /\ variant = "DoubleBuffer"
            /\ m_external_desc = Desc(shape, PlainOrder(2), ext_prc)
            /\ m_internal_desc = desc
            /\ buffer_num = 0
            /\ m_internal_mem = <<Constructed(first_buffer, desc), second_buffer>>
            /\ m_hidden_state = Null
            /\ m_state = Null
            /\ m_internal_mem_max_size = 0
            /\ m_hidden_state_max_size = 0
            /\ m_quant_by_channel = FALSE
            /\ m_group_size = 0
            /\ m_scale_zp = Null
            /\ m_internal_mem_ptr = NullPtr

\* VariableStateSingleBuffer::VariableStateSingleBuffer
InitSingleBuffer ==
    \E shape \in BufferShapes, order \in BufferOrders,
       ext_prc \in Precisions, int_prc \in Precisions :
        LET desc == Desc(shape, order, int_prc)
        IN  \E external_buffer \in RawBuffers(desc) :
            /\ variant = "SingleBuffer"
            /\ m_external_desc = Desc(shape, PlainOrder(2), ext_prc)
            /\ m_internal_desc = desc
            /\ buffer_num = 0
            /\ m_internal_mem = <<Constructed(external_buffer, desc)>>
            /\ m_hidden_state = Null
            /\ m_state = Null
            /\ m_internal_mem_max_size = 0
            /\ m_hidden_state_max_size = 0
            /\ m_quant_by_channel = FALSE
            /\ m_group_size = 0
            /\ m_scale_zp = Null
            /\ m_internal_mem_ptr = NullPtr

\* the state object is s, or there is none when the constructor threw
Holds(s) ==
    /\ variant = IF s.threw THEN "none" ELSE s.variant
    /\ m_external_desc = s.m_external_desc
    /\ m_internal_desc = s.m_internal_desc
    /\ m_internal_mem = s.m_internal_mem
    /\ buffer_num = s.buffer_num
    /\ m_hidden_state = s.m_hidden_state
    /\ m_state = s.m_state
    /\ m_internal_mem_max_size = s.m_internal_mem_max_size
    /\ m_hidden_state_max_size = s.m_hidden_state_max_size
    /\ m_quant_by_channel = s.m_quant_by_channel
    /\ m_group_size = s.m_group_size
    /\ m_scale_zp = s.m_scale_zp
    /\ m_internal_mem_ptr = s.m_internal_mem_ptr

\* the external shapes a KV cache is constructed with, as [L,B,H,S]: both
\* L and B dynamic, L alone dynamic, none dynamic
KvShapes ==
    {<<UNDEFINED_DIM, UNDEFINED_DIM, Heads, Size>>,
     <<UNDEFINED_DIM, 1, Heads, Size>>,
     <<1, 1, Heads, Size>>}

\* the constructor arguments of the KV caches with unquantized storage
KvConfigs ==
    {c \in {[shape |-> <<UNDEFINED_DIM, UNDEFINED_DIM, Heads, Size>>, order |-> order,
              ext_prc |-> e, int_prc |-> i, quant_by_channel |-> FALSE,
              group_size |-> Size] :
                order \in KvOrders, e \in Precisions, i \in Precisions} :
        c.order = <<2, 0, 1, 3>> \/ (c.ext_prc = "f32" /\ c.int_prc = "f16")}
    \cup
    {[shape |-> shape, order |-> <<2, 0, 1, 3>>, ext_prc |-> "f32", int_prc |-> "f32",
      quant_by_channel |-> FALSE, group_size |-> Size] : shape \in KvShapes}

\* VariableStateKVcache::VariableStateKVcache on the arguments c
InitKVcacheWith(c) ==
    LET shape == Unpermute(c.order, c.shape)
    IN  Holds(VariableStateKVcache(Desc(shape, PlainOrder(4), c.ext_prc),
                                   Desc(shape, c.order, c.int_prc),
                                   c.quant_by_channel, c.group_size))

InitKVcache == \E c \in KvConfigs : InitKVcacheWith(c)

\* what Init settles besides the state object
InitRest ==
    \* the initial value of the flag is set outside memory_state.cpp
    /\ reset_state_flag \in (IF variant = "none" THEN {FALSE} ELSE BOOLEAN)
    /\ op = IF variant = "none" THEN "ctor_failed" ELSE "init"
    /\ arg = Null
    /\ ret = IF variant = "none" THEN Failure ELSE NoResult
    /\ nCommits = 0
    /\ sinceReset = "no"
    /\ untouched = TRUE
    /\ held = NoResult
    /\ loop = NoLoop

Init ==
    /\ InitDoubleBuffer \/ InitSingleBuffer \/ InitKVcache
    /\ InitRest

\* ----------------------------------------------------------------- actions
\* the object was constructed, the process runs and no call is under way
Alive == variant # "none" /\ op # "set_state_crashed" /\ loop.call = "none"

\* how a set_state call may end: undefined behaviour (a read outside the
\* caller's tensor) yields any garbage, or the call crashes
SetStateOutcomes(s, state) ==
    IF KV_quant_reads_outside(s, state)
    THEN {set_state([s EXCEPT !.junk = g], state) : g \in Garbage}
            \cup {[s EXCEPT !.crashed = TRUE]}
    ELSE {set_state(s, state)}

SetState ==
    /\ Alive
    /\ UNCHANGED <<held, loop>>
    /\ \E state \in CompatibleTensors(Self) \cup IncompatibleTensors(Self) :
        \E done \in SetStateOutcomes(Self, state) :
            /\ Becomes(done)
            /\ op' = IF done.crashed THEN "set_state_crashed"
                     ELSE IF done.threw THEN "set_state_failed" ELSE "set_state"
            /\ arg' = state
            /\ ret' = IF done.threw \/ done.crashed THEN Failure ELSE NoResult
            /\ sinceReset' = IF done.threw \/ done.crashed THEN sinceReset ELSE "no"
            /\ untouched' = FALSE
            /\ UNCHANGED nCommits

\* what a get_state call may return: undefined behaviour (a read outside an
\* allocation) yields any garbage, or the call crashes
GetStateResults(s) ==
    IF s.variant = "KVcache" /\ KV_reads_outside(s)
    THEN {get_state(s, g) : g \in Garbage}
            \cup {[status |-> "crash", path |-> "none", mem |-> Null, alias |-> NoAlias]}
    ELSE {get_state(s, 0)}

\* a get_state that also clears the reset flag
GetState_ClearsFlag ==
    /\ Alive
    /\ \E r \in GetStateResults(Self) :
        /\ ret' = r
        /\ op' = "get_state"
        /\ arg' = Null
        /\ Becomes([Self EXCEPT !.reset_state_flag = FALSE])
        /\ UNCHANGED <<nCommits, sinceReset, untouched, held, loop>>

GetState ==
    /\ Alive
    /\ \E r \in GetStateResults(Self) :
        /\ ret' = r
        /\ op' = "get_state"
        /\ arg' = Null
        /\ UNCHANGED <<fields, nCommits, sinceReset, untouched, held, loop>>

Reset ==
    /\ Alive
    /\ UNCHANGED <<held, loop>>
    /\ Becomes(reset(Self))
    /\ op' = "reset"
    /\ arg' = Null
    /\ ret' = NoResult
    /\ sinceReset' = "reset"
    /\ UNCHANGED <<nCommits, untouched>>

Commit ==
    /\ Alive
    /\ UNCHANGED <<held, loop>>
    /\ variant = "DoubleBuffer" => nCommits < MaxCommits
    /\ Becomes(commit(Self))
    /\ op' = "commit"
    /\ arg' = Null
    /\ ret' = NoResult
    /\ nCommits' = IF variant = "DoubleBuffer" THEN nCommits + 1 ELSE nCommits
    /\ sinceReset' = IF sinceReset = "no" THEN "no" ELSE "reset_commit"
    /\ UNCHANGED untouched

AssignInternalState ==
    /\ Alive /\ variant = "KVcache"
    /\ UNCHANGED <<held, loop>>
    /\ \E mem \in AssignableBuffers(Self) :
        /\ Becomes(assign_internal_state(Self, mem))
        /\ op' = "assign_internal_state"
        /\ arg' = Null
        /\ ret' = NoResult
        /\ sinceReset' = "no"
        /\ untouched' = FALSE
        /\ UNCHANGED nCommits

AssignHiddenState ==
    /\ Alive /\ variant = "KVcache"
    /\ UNCHANGED <<held, loop>>
    /\ \E mem \in AssignableBeamTables :
        /\ Becomes(assign_hidden_state(Self, mem))
        /\ op' = "assign_hidden_state"
        /\ arg' = Null
        /\ ret' = NoResult
        /\ sinceReset' = "no"
        /\ untouched' = FALSE
        /\ UNCHANGED nCommits

\* assign_internal_state with whatever buffer the orchestrator hands over
AssignAnyInternalState ==
    /\ Alive /\ variant = "KVcache"
    /\ UNCHANGED <<held, loop>>
    /\ \E mem \in AssignableBuffers(Self) \cup MalformedBuffers(Self) :
        /\ Becomes(assign_internal_state(Self, mem))
        /\ op' = "assign_internal_state"
        /\ arg' = Null
        /\ ret' = NoResult
        /\ sinceReset' = "no"
        /\ untouched' = FALSE
        /\ UNCHANGED nCommits

Next ==
    \/ SetState
    \/ GetState
    \/ Reset
    \/ Commit
    \/ AssignInternalState
    \/ AssignHiddenState

Spec == Init /\ [][Next]_vars

\* KV caches driven by an orchestrator that assigns buffers of any layout;
\* one of them stores the size dimension outside the innermost position
HooksConfigs ==
    {[shape |-> <<UNDEFINED_DIM, UNDEFINED_DIM, Heads, Size>>, order |-> order,
      ext_prc |-> "f32", int_prc |-> "f32", quant_by_channel |-> FALSE,
      group_size |-> Size] : order \in {<<2, 0, 1, 3>>, <<0, 1, 3, 2>>}}

InitHooks ==
    /\ \E c \in HooksConfigs : InitKVcacheWith(c)
    /\ InitRest

NextHooks ==
    \/ SetState
    \/ GetState
    \/ Reset
    \/ Commit
    \/ AssignAnyInternalState
    \/ AssignHiddenState

SpecHooks == InitHooks /\ [][NextHooks]_vars

\* DoubleBuffer/SingleBuffer states whose caller keeps the tensors get_state
\* returns and writes into them, and whose graph node writes into the
\* input-role buffer
Written == {5}

\* the caller keeps the tensor the last get_state returned; a tensor that
\* wraps a buffer of the state has no memory of its own
KeepResult ==
    /\ Alive
    /\ op = "get_state" /\ ret.status = "ok"
    /\ held' = IF ret.alias = NoAlias THEN ret ELSE [ret EXCEPT !.mem = Null]
    /\ op' = "keep"
    /\ UNCHANGED <<fields, arg, ret, nCommits, sinceReset, untouched, loop>>

\* the memory a write through the kept tensor or through input_mem() changes
WrittenInto(mem, v) == [mem EXCEPT !.data[1] = v]

\* the graph node stores a value through input_mem()
WriteBuffer ==
    /\ Alive
    /\ Len(Deref(Self, input_mem(Self)).data) > 0
    /\ \E v \in Written :
        /\ Deref(Self, input_mem(Self)).data[1] # v
        /\ Becomes(Store(Self, input_mem(Self), WrittenInto(Deref(Self, input_mem(Self)), v)))
    /\ op' = "write_buffer"
    /\ arg' = Null
    /\ ret' = NoResult
    /\ sinceReset' = "no"
    /\ untouched' = FALSE
    /\ UNCHANGED <<nCommits, held, loop>>

\* the caller stores a value through the tensor it kept
WriteHeld ==
    /\ Alive
    /\ held.status = "ok"
    /\ \E v \in Written :
        IF held.alias = NoAlias
        THEN /\ Len(held.mem.data) > 0
             /\ held.mem.data[1] # v
             /\ held' = [held EXCEPT !.mem = WrittenInto(held.mem, v)]
             /\ UNCHANGED <<fields, sinceReset, untouched>>
        ELSE /\ Len(Deref(Self, held.alias).data) > 0
             /\ Deref(Self, held.alias).data[1] # v
             /\ Becomes(Store(Self, held.alias, WrittenInto(Deref(Self, held.alias), v)))
             /\ sinceReset' = "no"
             /\ untouched' = FALSE
             /\ UNCHANGED held
    /\ op' = "write_held"
    /\ arg' = Null
    /\ ret' = NoResult
    /\ UNCHANGED <<nCommits, loop>>

\* what the caller reads through the tensor it kept
HeldTensor == IF held.alias = NoAlias THEN held.mem ELSE Deref(Self, held.alias)

InitAlias ==
    /\ InitDoubleBuffer \/ InitSingleBuffer
    /\ ~IsDefined(m_internal_desc.shape)
    /\ InitRest
    /\ ~reset_state_flag

NextAlias ==
    \/ SetState
    \/ GetState
    \/ Reset
    \/ Commit
    \/ KeepResult
    \/ WriteBuffer
    \/ WriteHeld

SpecAlias == InitAlias /\ [][NextAlias]_vars

\* KV caches that store u8: quantized by channel or by group, in groups of
\* one step or element and of two
GroupSizes == {1, Size}

QuantConfigs ==
    {[shape |-> <<UNDEFINED_DIM, UNDEFINED_DIM, Heads, Size>>, order |-> order,
      ext_prc |-> "f32", int_prc |-> "u8", quant_by_channel |-> by_channel,
      group_size |-> group_size] :
        order \in KvOrders, by_channel \in BOOLEAN, group_size \in GroupSizes}

InitQuant ==
    /\ \E c \in QuantConfigs : InitKVcacheWith(c)
    /\ InitRest

NextQuant ==
    \/ SetState
    \/ GetState
    \/ Reset
    \/ Commit
    \/ AssignHiddenState

SpecQuant == InitQuant /\ [][NextQuant]_vars

\* KV caches that store u8 quantized by group, with rows of Size + 1
\* elements in groups of Size
QuantTailConfigs ==
    {[shape |-> <<UNDEFINED_DIM, UNDEFINED_DIM, Heads, Size + 1>>, order |-> order,
      ext_prc |-> "f32", int_prc |-> "u8", quant_by_channel |-> FALSE,
      group_size |-> Size] : order \in KvOrders}

InitQuantTail ==
    /\ \E c \in QuantTailConfigs : InitKVcacheWith(c)
    /\ InitRest

SpecQuantTail == InitQuantTail /\ [][NextQuant]_vars

\* ---------------------------------------- the parallel loops, step by step
\* a call that crashed
CrashResult == [status |-> "crash", path |-> "none", mem |-> Null, alias |-> NoAlias]

\* whether every worker of the running loop has finished its iterations
LoopDone == \A w \in 1..loop.nthr : loop.next[w] = loop.last[w]

\* whether worker w of the running loop of call has an iteration left
Pending(call, w) ==
    /\ loop.call = call
    /\ w \in 1..loop.nthr
    /\ loop.next[w] < loop.last[w]

\* the output tensor of the u8 branch holds dequantized values, which are
\* fractions: its elements not yet written as fractions
AsFractions(mem) ==
    [mem EXCEPT !.data = [k \in 1..Len(mem.data) |-> <<mem.data[k], 1>>]]

\* get_state entering the reorder path: lines 245-275, up to parallel_for3d
BeginGetState ==
    /\ Alive /\ variant = "KVcache"
    /\ get_state(Self, 0).path = "reorder"
    /\ \E max_threads \in 1..MaxWorkers,
          g \in (IF KV_reads_outside(Self) THEN Garbage ELSE {0}) :
        LET mem          == Deref(Self, 0)
            size         == PermutedDims(mem, mem.order)
            external_mem == NewMemory(cloneWithNewDims(m_external_desc, mem.dims))
        IN  loop' = parallel_for3d("get_state", <<size[1], size[2], size[3]>>,
                                   max_threads,
                                   IF mem.prc = "u8" THEN AsFractions(external_mem)
                                   ELSE external_mem,
                                   g)
    /\ op' = "running"
    /\ arg' = Null
    /\ ret' = NoResult
    /\ UNCHANGED <<fields, nCommits, sinceReset, untouched, held>>

\* worker w runs the next statement of its iteration (m, b, h): u8, the
\* dequantization into its scratch buffer and then the conversion into the
\* output row; otherwise the conversion alone
GetStateStep(w) ==
    /\ Pending("get_state", w)
    /\ LET it   == IterationAt(loop.D, loop.next[w])
           mem  == Deref(Self, 0)
           slot == ScratchOf(w - 1) + 1
       IN  IF mem.prc = "u8" /\ loop.phase[w] = 0
           THEN loop' = [loop EXCEPT
                    !.scratch[slot] = KV_get_state_row(Self, it[1], it[2], it[3], loop.junk),
                    !.phase[w] = 1]
           ELSE loop' = [loop EXCEPT
                    !.out = KV_get_state_store(loop.out, mem.order, it[1], it[2], it[3],
                                IF mem.prc = "u8" THEN "f32" ELSE mem.prc,
                                IF mem.prc = "u8" THEN loop.scratch[slot]
                                ELSE KV_get_state_row(Self, it[1], it[2], it[3], loop.junk)),
                    !.phase[w] = 0,
                    !.next[w] = @ + 1,
                    !.hits[loop.next[w] + 1] = @ + 1]
    /\ UNCHANGED <<fields, op, arg, ret, nCommits, sinceReset, untouched, held>>

\* an iteration that reads outside an allocation may end the process
GetStateCrash(w) ==
    /\ Pending("get_state", w)
    /\ loop.phase[w] = 0
    /\ LET it == IterationAt(loop.D, loop.next[w])
       IN  KV_iteration_reads_outside(Self, it[1], it[2], it[3])
    /\ loop' = Crashed
    /\ op' = "get_state"
    /\ ret' = CrashResult
    /\ UNCHANGED <<fields, arg, nCommits, sinceReset, untouched, held>>

\* parallel_for3d returns and get_state returns the tensor: line 311
EndGetState ==
    /\ loop.call = "get_state"
    /\ LoopDone
    /\ ret' = Result("reorder", loop.out)
    /\ op' = "get_state"
    /\ loop' = NoLoop
    /\ UNCHANGED <<fields, arg, nCommits, sinceReset, untouched, held>>

\* get_state on the empty path, or failing an assertion: no loop is run
GetStateDirect ==
    /\ Alive
    /\ get_state(Self, 0).path # "reorder"
    /\ GetState

\* set_state of an unquantized state (Memory::load), or one that throws
SetStateDirect ==
    /\ m_internal_desc.prc # "u8"
    /\ SetState

\* set_state of a quantized KV cache: lines 316-344/363, up to parallel_for3d
BeginSetState ==
    /\ Alive /\ variant = "KVcache" /\ m_internal_desc.prc = "u8"
    /\ \E state \in CompatibleTensors(Self), max_threads \in 1..MaxWorkers :
        \E g \in (IF KV_quant_reads_outside(Self, state) THEN Garbage ELSE {0}) :
        LET dense_internal_desc == cloneWithNewDims(m_internal_desc, getDesc(state).shape)
            internal == NewMemory(dense_internal_desc)
            size     == PermutedDims(internal, m_internal_desc.order)
            table    == NewScaleZp(KV_scale_zp_dims(Self, size))
        IN  /\ Becomes([Self EXCEPT !.m_state = state,
                                    !.m_internal_mem = <<internal>>,
                                    !.m_internal_mem_ptr = make_shared(m_internal_mem_ptr),
                                    !.m_scale_zp = table])
            /\ loop' = [parallel_for3d("set_state", KV_set_state_space(Self, size),
                                       max_threads, Null, g)
                            EXCEPT !.mem_writes = [k \in 1..Len(internal.data) |-> 0],
                                   !.tab_writes = [k \in 1..Len(table.data) |-> 0]]
            /\ arg' = state
    /\ op' = "running"
    /\ ret' = NoResult
    /\ UNCHANGED <<nCommits, sinceReset, untouched, held>>

\* worker w runs the next statement of its iteration: the conversion of the
\* caller's rows into its scratch buffer, then the quantization into the
\* internal buffer and the table
SetStateStep(w) ==
    /\ Pending("set_state", w)
    /\ LET it       == IterationAt(loop.D, loop.next[w])
           slot     == ScratchOf(w - 1) + 1
           s        == [Self EXCEPT !.junk = loop.junk]
           internal == Deref(Self, 0)
           size     == PermutedDims(internal, m_internal_desc.order)
           int_st   == Strides(internal.dims, internal.order)
           tab_st   == Strides(m_scale_zp.dims, PlainOrder(4))
       IN  IF loop.phase[w] = 0
           THEN /\ loop' = [loop EXCEPT
                        !.scratch[slot] = KV_set_state_fill(s, m_state, it),
                        !.phase[w] = 1]
                /\ UNCHANGED fields
           ELSE /\ Becomes([Self EXCEPT
                        !.m_internal_mem =
                            <<KV_set_state_store(s, internal, it, loop.scratch[slot])>>,
                        !.m_scale_zp =
                            KV_set_state_store_scale_zp(s, m_scale_zp, size, it,
                                                        loop.scratch[slot])])
                /\ loop' = [loop EXCEPT
                        !.phase[w] = 0,
                        !.next[w] = @ + 1,
                        !.hits[loop.next[w] + 1] = @ + 1,
                        !.mem_writes = [k \in 1..Len(internal.data) |->
                            LET idx == IndexAt(internal.dims, int_st, k - 1)
                                o   == m_internal_desc.order
                            IN  IF KV_set_state_writes(s, size, it, At(idx, o[1]),
                                       At(idx, o[2]), At(idx, o[3]), At(idx, o[4]))
                                THEN loop.mem_writes[k] + 1 ELSE loop.mem_writes[k]],
                        !.tab_writes = [k \in 1..Len(m_scale_zp.data) |->
                            IF KV_set_state_writes_slot(s, size, it,
                                   IndexAt(m_scale_zp.dims, tab_st, k - 1))
                            THEN loop.tab_writes[k] + 1 ELSE loop.tab_writes[k]]]
    /\ UNCHANGED <<op, arg, ret, nCommits, sinceReset, untouched, held>>

\* an iteration that reads outside the caller's tensor may end the process
SetStateCrash(w) ==
    /\ Pending("set_state", w)
    /\ loop.phase[w] = 0
    /\ KV_set_state_reads_outside(Self, m_state, IterationAt(loop.D, loop.next[w]))
    /\ loop' = Crashed
    /\ op' = "set_state_crashed"
    /\ ret' = Failure
    /\ UNCHANGED <<fields, arg, nCommits, sinceReset, untouched, held>>

\* parallel_for3d returns: the beam table, the capacity marks (380-396) and
\* the flag (80)
EndSetState ==
    /\ loop.call = "set_state"
    /\ LoopDone
    /\ LET state_dims == Deref(Self, 0).dims
           order      == m_internal_desc.order
           size_B     == At(state_dims, order[2])
           size_L     == At(state_dims, order[1])
       IN  Becomes([Self EXCEPT
                !.m_hidden_state = IdentityBeamTable(size_B, size_L),
                !.m_internal_mem_max_size = ElementsCount(state_dims),
                !.m_hidden_state_max_size = ElementsCount(<<size_B, size_L>>),
                !.reset_state_flag = FALSE])
    /\ op' = "set_state"
    /\ ret' = NoResult
    /\ loop' = NoLoop
    /\ sinceReset' = "no"
    /\ untouched' = FALSE
    /\ UNCHANGED <<arg, nCommits, held>>

\* KV caches of dense order [B,H,L,S]: quantized by channel and by group, and
\* one that stores f32
ParConfigs ==
    {[shape |-> <<UNDEFINED_DIM, UNDEFINED_DIM, Heads, Size>>, order |-> <<2, 0, 1, 3>>,
      ext_prc |-> "f32", int_prc |-> int_prc, quant_by_channel |-> by_channel,
      group_size |-> group_size] :
        int_prc \in {"u8", "f32"}, by_channel \in BOOLEAN, group_size \in GroupSizes}

InitPar ==
    /\ \E c \in {d \in ParConfigs :
                    d.int_prc = "f32" => (~d.quant_by_channel /\ d.group_size = Size)} :
            InitKVcacheWith(c)
    /\ InitRest
    /\ ~reset_state_flag

NextPar ==
    \/ BeginGetState
    \/ \E w \in 1..MaxWorkers : GetStateStep(w)
    \/ \E w \in 1..MaxWorkers : GetStateCrash(w)
    \/ EndGetState
    \/ GetStateDirect
    \/ BeginSetState
    \/ \E w \in 1..MaxWorkers : SetStateStep(w)
    \/ \E w \in 1..MaxWorkers : SetStateCrash(w)
    \/ EndSetState
    \/ SetStateDirect
    \/ AssignHiddenState

SpecPar == InitPar /\ [][NextPar]_vars

\* worker w runs.  The step of a worker has no guard but Pending, so it is
\* enabled exactly when the first disjunct is; that disjunct is no step of
\* NextPar, so the steps of Runs(w) in a behaviour are the steps of worker w.
\* (TLC decides ENABLED by building a successor: the first disjunct spares
\* it the arithmetic of a row.)
Runs(w) ==
    \/ /\ \E call \in {"get_state", "set_state"} : Pending(call, w)
       /\ loop' = [call |-> "scheduled"]
       /\ UNCHANGED <<fields, op, arg, ret, nCommits, sinceReset, untouched, held>>
    \/ GetStateStep(w)
    \/ SetStateStep(w)

\* the workers are scheduled fairly and a finished loop returns
FairPar ==
    /\ \A w \in 1..MaxWorkers : WF_vars(Runs(w))
    /\ WF_vars(EndGetState \/ EndSetState)

SpecParFair == SpecPar /\ FairPar

\* ------------------------------------------------------------------ claims
IsBuffer == variant \in {"DoubleBuffer", "SingleBuffer"}

IsKV == variant = "KVcache"

\* a state object was constructed
Exists == variant # "none"

\* T with every element converted to the storage precision and back
Normalized(T, s) ==
    [k \in 1..Len(T.data) |->
        cpu_convert(s.m_internal_desc.prc, s.m_external_desc.prc,
            cpu_convert(T.prc, s.m_internal_desc.prc, T.data[k]))]

\* r is a tensor with the dims of T and the elements of T, normalized
ReturnsNormalized(r, T, s) ==
    /\ r.status = "ok"
    /\ r.mem.dims = T.dims
    /\ r.mem.prc = s.m_external_desc.prc
    /\ Logical(r.mem) = Normalized(T, s)

\* r is the defined-empty tensor: the static form of the external
\* descriptor, holding nothing but zeros
ReturnsEmpty(r, s) ==
    /\ r.status = "ok"
    /\ r.mem.dims = to_static(s.m_external_desc).shape
    /\ \A k \in 1..Len(r.mem.data) : r.mem.data[k] = 0

\* C1: DoubleBuffer/SingleBuffer: in the state set_state(T) leaves, whatever
\* preceded it, get_state() returns a tensor with the dims of T whose
\* elements are those of T after normalization to the storage precision.
C1_RoundTrip ==
    (IsBuffer /\ op = "set_state") =>
        \A r \in GetStateResults(Self) : ReturnsNormalized(r, arg, Self)

C1_Witness ==
    /\ variant = "DoubleBuffer"
    /\ op = "set_state"
    /\ nCommits = 1
    /\ Len(arg.data) = 4
    /\ m_internal_desc.order = <<1, 0>>
    /\ get_state(Self, 0).path = "reorder"
    /\ Logical(get_state(Self, 0).mem) # arg.data

\* C2: DoubleBuffer: after N commit() calls, interleaved with any other
\* calls, the role index is N mod 2, the input role is held by buffer
\* N mod 2 and the output role by the other one.
C2_RoleIndex ==
    variant = "DoubleBuffer" =>
        /\ buffer_num = nCommits % 2
        /\ input_mem(Self) = nCommits % 2
        /\ output_mem(Self) = 1 - (nCommits % 2)

C2_Witness ==
    /\ variant = "DoubleBuffer"
    /\ nCommits = 3
    /\ buffer_num = 1
    /\ op = "set_state"

\* C3: DoubleBuffer: a set_state leaves the output-role buffer as it was and
\* writes the input-role buffer; a commit makes the output-role buffer the
\* one that was the input-role buffer before it, contents included.
C3_PingPong ==
    [][variant = "DoubleBuffer" =>
        /\ op' = "set_state" =>
            /\ Deref(Self', output_mem(Self')) = Deref(Self, output_mem(Self))
            /\ Logical(Deref(Self', input_mem(Self'))) =
                    [k \in 1..Len(arg'.data) |->
                        cpu_convert(arg'.prc, m_internal_desc.prc, arg'.data[k])]
        /\ op' = "commit" =>
            /\ Deref(Self', output_mem(Self')) = Deref(Self, input_mem(Self))
            /\ Deref(Self', input_mem(Self')) = Deref(Self, output_mem(Self))]_vars

C3_Witness ==
    /\ variant = "DoubleBuffer"
    /\ op = "commit"
    /\ Len(Deref(Self, output_mem(Self)).data) = 4
    /\ Deref(Self, output_mem(Self)).data[1] = 2047
    /\ Len(Deref(Self, input_mem(Self)).data) = 2
    /\ Deref(Self, input_mem(Self)).data[1] = 1

\* C4: KVcache: right after set_state with a tensor of logical shape
\* [L,B,H,S] the beam table has B rows and L columns and holds b in every
\* cell of row b.
C4_IdentityBeamTable ==
    (IsKV /\ op = "set_state") =>
        LET L == At(arg.dims, m_internal_desc.order[1])
            B == At(arg.dims, m_internal_desc.order[2])
        IN  /\ m_hidden_state.dims = <<B, L>>
            /\ Len(m_hidden_state.data) = B * L
            /\ \A b \in 0..(B - 1), l \in 0..(L - 1) :
                    At(m_hidden_state.data, b * L + l) = b

C4_Witness ==
    /\ IsKV
    /\ op = "set_state"
    /\ m_internal_desc.order = <<2, 0, 1, 3>>
    /\ m_hidden_state.dims = <<2, 1>>
    /\ m_hidden_state.data = <<0, 1>>

\* C5 as claimed: KVcache, unquantized storage: get_state() after
\* set_state(T) returns the dims of T and exactly the elements of T.
C5_ExactRoundTrip ==
    (IsKV /\ op = "set_state") =>
        \A r \in GetStateResults(Self) :
            /\ r.status = "ok"
            /\ r.mem.dims = arg.dims
            /\ Logical(r.mem) = Logical(arg)

\* C5 amended: KVcache, unquantized storage: get_state() after set_state(T)
\* returns the dims of T and the elements of T converted to the storage
\* precision and back, with no row permutation; they are exactly those of T
\* when the storage precision is f32 or equals the external precision.
C5_NormalizedRoundTrip ==
    (IsKV /\ op = "set_state") =>
        \A r \in GetStateResults(Self) :
            /\ ReturnsNormalized(r, arg, Self)
            /\ (m_internal_desc.prc = "f32" \/ m_internal_desc.prc = m_external_desc.prc)
                    => Logical(r.mem) = Logical(arg)

C5_Witness ==
    /\ IsKV
    /\ op = "set_state"
    /\ m_internal_desc.order = <<2, 0, 1, 3>>
    /\ arg.dims = <<2, Heads, 2, Size>>
    /\ m_internal_desc.prc = "f16"
    /\ m_external_desc.prc = "f32"
    /\ get_state(Self, 0).path = "reorder"
    /\ Logical(get_state(Self, 0).mem) # Logical(arg)

\* the beam table of s covers the [B,L] of its internal buffer and names
\* batches in [0,B) only
BeamTableInRange(s) ==
    LET mem    == Deref(s, 0)
        hidden == s.m_hidden_state
        L      == At(mem.dims, mem.order[1])
        B      == At(mem.dims, mem.order[2])
    IN  /\ hidden.dims[1] >= B
        /\ hidden.dims[2] >= L
        /\ \A b \in 0..(B - 1), m \in 0..(L - 1) :
                At(hidden.data, b * hidden.dims[2] + m) \in 0..(B - 1)

\* row (m,b,h) of the tensor r is the stored row (m, BeamTable[b][m], h) of s
RowsFollowBeamTable(r, s) ==
    LET mem    == Deref(s, 0)
        hidden == s.m_hidden_state
        order  == mem.order
    IN  /\ r.status = "ok"
        /\ r.mem.dims = mem.dims
        /\ \A m \in 0..(At(mem.dims, order[1]) - 1), b \in 0..(At(mem.dims, order[2]) - 1),
              h \in 0..(At(mem.dims, order[3]) - 1), e \in 0..(At(mem.dims, order[4]) - 1) :
                LET b_kv == At(hidden.data, b * hidden.dims[2] + m)
                IN  Elem(r.mem, Unpermute(order, <<m, b, h, e>>)) =
                        cpu_convert(mem.prc, s.m_external_desc.prc,
                            Elem(mem, Unpermute(order, <<m, b_kv, h, e>>)))

\* C6: KVcache holding a buffer and a beam table with entries in [0,B),
\* reset flag clear: get_state() returns in row (m,b,h) the stored row
\* (m, BeamTable[b][m], h), converted to the external precision, and leaves
\* the buffer and the beam table as they are.
C6_BeamReordering ==
    [][(/\ IsKV
        /\ op' = "get_state"
        /\ ~IsNull(Deref(Self, 0))
        /\ ~IsNull(m_hidden_state)
        /\ ~reset_state_flag
        /\ BeamTableInRange(Self)) =>
            /\ RowsFollowBeamTable(ret', Self)
            /\ m_internal_mem' = m_internal_mem
            /\ m_hidden_state' = m_hidden_state]_vars

C6_Witness ==
    /\ IsKV
    /\ op = "get_state"
    /\ ret.status = "ok"
    /\ ret.path = "reorder"
    /\ m_internal_desc.order = <<2, 0, 1, 3>>
    /\ Deref(Self, 0).dims = <<2, Heads, 2, Size>>
    /\ m_hidden_state = BeamTable(2, 2, "skew")
    /\ BeamTableInRange(Self)
    /\ Elem(ret.mem, <<0, 1, 1, 0>>) = Elem(Deref(Self, 0), <<1, 1, 1, 0>>)
    /\ Elem(ret.mem, <<0, 1, 1, 0>>) # Elem(Deref(Self, 0), <<0, 1, 1, 0>>)

\* C7: reset() sets the reset flag, set_state() and commit() clear it, and
\* get_state and the assign hooks leave it as it is; so the flag is set
\* exactly when the last of reset/set_state/commit was reset().
C7_ResetFlag ==
    [][/\ op' = "reset" => is_reset_state(Self')
       /\ op' \in {"set_state", "commit"} => ~is_reset_state(Self')
       /\ op' \in {"get_state", "assign_internal_state", "assign_hidden_state"}
            => is_reset_state(Self') = is_reset_state(Self)]_vars

C7_Witness ==
    /\ IsKV
    /\ op = "commit"
    /\ sinceReset = "reset_commit"
    /\ ~is_reset_state(Self)
    /\ ~IsNull(Deref(Self, 0))
    /\ ~IsNull(m_hidden_state)

\* C8: whenever is_reset_state() is true, get_state() returns a tensor with
\* the dims of the static form of the external descriptor that holds no
\* stored history (nothing but zeros).
C8_ResetStateIsEmpty ==
    is_reset_state(Self) => \A r \in GetStateResults(Self) : ReturnsEmpty(r, Self)

C8_Witness ==
    /\ IsKV
    /\ is_reset_state(Self)
    /\ op = "get_state"
    /\ Len(Deref(Self, 0).data) > 0
    /\ ~IsNull(m_hidden_state)
    /\ ret.path = "empty"
    /\ ret.mem.dims = KvDims(m_internal_desc.order, 0, 0)

\* C9: from every reachable state a second reset() changes nothing the
\* first one left: flag, buffers, role index, beam table and the result of
\* get_state() are the same after reset(); reset() as after reset().
C9_ResetIdempotent ==
    Exists =>
        /\ reset(reset(Self)) = reset(Self)
        /\ GetStateResults(reset(reset(Self))) = GetStateResults(reset(Self))
        /\ op = "reset" => reset(Self) = Self

C9_Witness ==
    /\ variant = "DoubleBuffer"
    /\ op = "reset"
    /\ buffer_num = 1
    /\ m_internal_desc.shape = <<1, 2>>
    /\ reset(Self) = Self
    /\ m_internal_mem[1].data = <<0, 0>>
    /\ m_internal_mem[2].data = <<0, 0>>

\* C10 as claimed: for every variant, from reset() until the next set_state
\* or buffer assignment get_state() returns the defined-empty tensor, also
\* after commit() calls in between.
C10_EmptyUntilSetState ==
    sinceReset # "no" => \A r \in GetStateResults(Self) : ReturnsEmpty(r, Self)

\* C10 amended: from reset() until the next set_state or buffer assignment
\* get_state() returns the defined-empty tensor; for a DoubleBuffer or a
\* SingleBuffer also after commit() calls in between, for a KVcache only
\* until the next commit().
C10_EmptyUntilSetStateOrKVCommit ==
    (sinceReset = "reset" \/ (sinceReset = "reset_commit" /\ IsBuffer)) =>
        \A r \in GetStateResults(Self) : ReturnsEmpty(r, Self)

C10_Witness ==
    /\ variant = "DoubleBuffer"
    /\ sinceReset = "reset_commit"
    /\ op = "get_state"
    /\ nCommits = 3
    /\ m_internal_desc.shape = <<1, 2>>
    /\ ret.mem.data = <<0, 0>>

\* C11: constructing a KVcache throws exactly when the external shape has no
\* dynamic dimension: every KVcache that exists has a dynamic external shape,
\* a failed construction leaves no object and had a static shape, and the
\* constructor accepts every configuration with a dynamic dimension.
C11_DynamicShapeOnly ==
    /\ IsKV => ~IsDefined(m_external_desc.shape)
    /\ op = "ctor_failed" => (variant = "none" /\ IsDefined(m_external_desc.shape))
    /\ \A c \in KvConfigs :
        LET shape == Unpermute(c.order, c.shape)
            made  == VariableStateKVcache(Desc(shape, PlainOrder(4), c.ext_prc),
                                          Desc(shape, c.order, c.int_prc),
                                          c.quant_by_channel, c.group_size)
        IN  made.threw <=> (\A i \in 1..4 : c.shape[i] # UNDEFINED_DIM)

C11_Witness ==
    /\ variant = "none"
    /\ op = "ctor_failed"
    /\ ret = Failure
    /\ m_external_desc.shape = <<1, Heads, 1, Size>>

\* the buffer of s is not rank 4, or not in the dense internal order, or the
\* size dimension (the last of the dense internal order) does not have
\* stride 1 in the buffer or in the plain output layout
LayoutViolated(s) ==
    LET mem == Deref(s, 0)
        d   == s.m_internal_desc.order[4]
    IN  \/ Len(mem.dims) # 4
        \/ mem.order # s.m_internal_desc.order
        \/ At(Strides(mem.dims, mem.order), d) # 1
        \/ At(Strides(mem.dims, PlainOrder(4)), d) # 1

\* C12: KVcache on the non-empty path of get_state (buffer and beam table
\* present, reset flag clear): when the buffer is not rank 4, or its order
\* is not the dense internal one, or the size stride of the buffer or of the
\* output is not 1, get_state() fails and returns no tensor.
C12_MalformedLayoutFails ==
    (/\ IsKV
     /\ ~IsNull(Deref(Self, 0))
     /\ ~IsNull(m_hidden_state)
     /\ ~is_reset_state(Self)
     /\ LayoutViolated(Self)) =>
        \A r \in GetStateResults(Self) : r.status = "fail" /\ IsNull(r.mem)

C12_Witness ==
    /\ IsKV
    /\ op = "get_state"
    /\ ret = Failure
    /\ ~is_reset_state(Self)
    /\ ~IsNull(m_hidden_state)
    /\ m_internal_desc.order = <<2, 0, 1, 3>>
    /\ Deref(Self, 0).order = <<0, 1, 2, 3>>
    /\ Len(Deref(Self, 0).dims) = 4

\* C13: a set_state with a tensor whose rank is not that of the state (for
\* a KVcache: not rank 4) fails, and the failed call leaves the buffers, the
\* beam table, the reset flag and what get_state() returns as they were.
C13_RankMismatchFails ==
    [][(/\ op' \in {"set_state", "set_state_failed"}
        /\ Len(arg'.dims) # Len(m_external_desc.shape)) =>
            /\ op' = "set_state_failed"
            /\ ret' = Failure
            /\ m_internal_mem' = m_internal_mem
            /\ m_hidden_state' = m_hidden_state
            /\ reset_state_flag' = reset_state_flag
            /\ GetStateResults(Self') = GetStateResults(Self)]_vars

C13_Witness ==
    /\ IsKV
    /\ op = "set_state_failed"
    /\ Len(arg.dims) = 3
    /\ Len(arg.data) > 0
    /\ Len(Deref(Self, 0).dims) = 4
    /\ Len(Deref(Self, 0).data) > 0
    /\ Deref(Self, 0).data[1] = KvBase

\* C14: KVcache holding a buffer and a beam table: the beam table has as
\* many rows as the buffer has batches and as many columns as the buffer has
\* steps, whatever sequence of set_state, reset, commit and assign hook
\* calls led there.
C14_BeamTableShape ==
    (IsKV /\ ~IsNull(Deref(Self, 0)) /\ ~IsNull(m_hidden_state)) =>
        LET mem == Deref(Self, 0)
            L   == At(mem.dims, mem.order[1])
            B   == At(mem.dims, mem.order[2])
        IN  m_hidden_state.dims = <<B, L>>

\* descriptors of rank 1 to 3 with undefined, empty and non-empty dimensions
SampleDescs ==
    LET D == {UNDEFINED_DIM, 0, MaxDim}
    IN  {Desc(shape, PlainOrder(Len(shape)), "f32") :
            shape \in {<<a>> : a \in D} \cup (D \X D) \cup (D \X D \X D)}

\* what to_static promises of the descriptor d
ToStaticOf(d) ==
    LET r == to_static(d)
    IN  /\ Len(r.shape) = Len(d.shape)
        /\ r.order = d.order
        /\ r.prc = d.prc
        /\ \A i \in 1..Len(d.shape) :
                r.shape[i] = IF d.shape[i] = UNDEFINED_DIM THEN 0 ELSE d.shape[i]
        /\ IsDefined(d.shape) => r = d
        /\ IsDefined(r.shape)
        /\ to_static(r) = r

\* C15: to_static(d) has the rank of d, 0 where d is undefined and the
\* dimension of d elsewhere; it returns a fully defined d as it is, its
\* result is fully defined and applying it again changes nothing. This holds
\* of the descriptors of every state, of the sample descriptors, and the
\* buffers a reset() leaves have the dims to_static gives.
C15_ToStatic ==
    /\ \A d \in SampleDescs \cup {m_external_desc, m_internal_desc} : ToStaticOf(d)
    /\ (IsBuffer /\ op = "reset") =>
            \A k \in 1..Len(m_internal_mem) :
                \A i \in 1..Len(m_internal_desc.shape) :
                    m_internal_mem[k].dims[i] =
                        IF m_internal_desc.shape[i] = UNDEFINED_DIM
                        THEN 0 ELSE m_internal_desc.shape[i]

C15_Witness ==
    /\ variant = "DoubleBuffer"
    /\ op = "reset"
    /\ m_internal_desc.shape = <<UNDEFINED_DIM, 2>>
    /\ m_internal_mem[1].dims = <<0, 2>>
    /\ m_internal_mem[2].dims = <<0, 2>>
    /\ sinceReset = "reset"
    /\ ~untouched

\* the elements of the tensor T that are quantized together with element k:
\* by channel the same (b, h, e) in the steps of one group, by group the
\* same (m, b, h) in the elements of one group
QuantGroupOf(T, k) ==
    LET order == m_internal_desc.order
        st    == Strides(T.dims, T.order)
        C(j)  == LET idx == IndexAt(T.dims, st, j - 1)
                 IN  <<At(idx, order[1]), At(idx, order[2]), At(idx, order[3]),
                       At(idx, order[4])>>
    IN  {j \in 1..Len(T.data) :
            IF m_quant_by_channel
            THEN /\ C(j)[2] = C(k)[2] /\ C(j)[3] = C(k)[3] /\ C(j)[4] = C(k)[4]
                 /\ C(j)[1] \div m_group_size = C(k)[1] \div m_group_size
            ELSE /\ C(j)[1] = C(k)[1] /\ C(j)[2] = C(k)[2] /\ C(j)[3] = C(k)[3]
                 /\ C(j)[4] \div m_group_size = C(k)[4] \div m_group_size}

\* max - min of the values of T quantized together with element k
QuantGroupRange(T, k) ==
    LET vs == {T.data[j] : j \in QuantGroupOf(T, k)}
    IN  (CHOOSE hi \in vs : \A v \in vs : v <= hi)
            - (CHOOSE lo \in vs : \A v \in vs : lo <= v)

\* the fraction x is within range / 255 of the integer v
WithinOneStep(x, v, range) == Abs(x[1] - v * x[2]) * 255 <= range * x[2]

\* C16: a quantized KV cache returns, right after set_state(T), every element
\* of T within one quantization step (the range of its group / 255), in
\* either grouping mode
C16_QuantRoundTrip ==
    (IsKV /\ m_internal_desc.prc = "u8" /\ op = "set_state") =>
        \A r \in GetStateResults(Self) :
            /\ r.status = "ok"
            /\ r.mem.dims = arg.dims
            /\ \A k \in 1..Len(arg.data) :
                    WithinOneStep(r.mem.data[k], arg.data[k], QuantGroupRange(arg, k))

\* the round trip by group alone
C16_ByGroupRoundTrip == m_quant_by_channel \/ C16_QuantRoundTrip

C16_ByGroupWitness ==
    /\ IsKV /\ m_internal_desc.prc = "u8" /\ op = "set_state" /\ ~m_quant_by_channel
    /\ Len(arg.data) > 0 /\ m_group_size = Size
\* C17: DoubleBuffer/SingleBuffer: whatever the external and the internal
\* precision and layout are, set_state of a tensor of the descriptor's shape
\* does not fail and get_state fails only when the buffer it reads has no
\* static dims; get_state takes the view path exactly when precision and
\* layout agree, the conversion path exactly when only the precision
\* differs and the reorder path otherwise, and the tensor it returns has the
\* external precision and layout and the dims of the internal buffer.
C17_ThreePaths ==
    IsBuffer =>
        LET m == Deref(Self, internal_state_mem(Self))
            r == get_state(Self, 0)
            same_prc   == m.prc = m_external_desc.prc
            same_order == m.order = m_external_desc.order
        IN  /\ r.status = IF IsDefined(m.dims) THEN "ok" ELSE "fail"
            /\ r.status = "ok" =>
                  /\ r.path = IF same_order /\ same_prc THEN "view"
                              ELSE IF same_order THEN "convert" ELSE "reorder"
                  /\ r.mem.prc = m_external_desc.prc
                  /\ r.mem.order = m_external_desc.order
                  /\ r.mem.dims = m.dims
            /\ op = "set_state_failed" => Len(arg.dims) # Len(m_external_desc.shape)

C17_Witness ==
    /\ IsBuffer
    /\ op = "get_state"
    /\ m_external_desc.prc # m_internal_desc.prc
    /\ m_external_desc.order # m_internal_desc.order
    /\ ret.status = "ok"
    /\ ret.path = "reorder"
    /\ Len(ret.mem.data) = 4
    /\ \E k \in 1..4 : ret.mem.data[k] = 2048
\* C18: KVcache: set_state(T2) replaces the buffer whatever was held before:
\* the state then holds a newly allocated object (not the one held before,
\* which the state no longer refers to, and not the orchestrator's) with the
\* dims and the length of T2 and the elements of T2 in the storage precision.
C18_SetStateReplaces ==
    [][(IsKV /\ op' = "set_state") =>
        LET mem   == m_internal_mem'[1]
            order == m_internal_desc.order
        IN  /\ m_internal_mem_ptr' \in HeapPtrs
            /\ m_internal_mem_ptr' # m_internal_mem_ptr
            /\ mem.dims = arg'.dims
            /\ PermutedDims(mem, order)[1] = PermutedDims(arg', order)[1]
            /\ Logical(mem) =
                    [k \in 1..Len(arg'.data) |->
                        cpu_convert(arg'.prc, m_internal_desc.prc, arg'.data[k])]]_vars

C18_Witness ==
    /\ IsKV
    /\ op = "set_state"
    /\ m_internal_mem_ptr = 3
    /\ PermutedDims(arg, m_internal_desc.order)[1] = 1
    /\ PermutedDims(arg, m_internal_desc.order)[2] = MaxBatch
\* C19: DoubleBuffer/SingleBuffer: the tensor get_state returns wraps the
\* input-role buffer exactly when precision and layout of the external and
\* the internal descriptor agree, and owns its memory otherwise; a value
\* written into the buffer a kept tensor wraps is read through the tensor;
\* a kept tensor that owns its memory is not changed by set_state, reset,
\* commit, get_state or a write into the buffer, and a write into it changes
\* no field of the state.
C19_ViewAliases ==
    [][IsBuffer =>
        /\ (op' = "get_state" /\ ret'.status = "ok") =>
              LET m == Deref(Self, input_mem(Self))
              IN  ret'.alias = IF m.prc = m_external_desc.prc
                                  /\ m.order = m_external_desc.order
                               THEN input_mem(Self) ELSE NoAlias
        /\ (held.status = "ok" /\ held.alias # NoAlias /\ op' = "write_buffer"
                /\ held.alias = input_mem(Self)) =>
              /\ HeldTensor' = m_internal_mem'[held.alias + 1]
              /\ HeldTensor'.data[1] \in Written
              /\ HeldTensor' # HeldTensor
        /\ (held.status = "ok" /\ held.alias = NoAlias) =>
              /\ op' \in {"set_state", "set_state_failed", "reset", "commit",
                         "get_state", "write_buffer"} => HeldTensor' = HeldTensor
              /\ op' = "write_held" => UNCHANGED fields]_vars

C19_Witness ==
    /\ IsBuffer
    /\ op = "write_buffer"
    /\ held.status = "ok"
    /\ held.alias = input_mem(Self)
    /\ HeldTensor.data[1] \in Written

C19_OwnedWitness ==
    /\ IsBuffer
    /\ op = "write_held"
    /\ held.status = "ok"
    /\ held.alias = NoAlias
    /\ held.path = "convert"
\* C20: KVcache: from construction until the first set_state or assign hook
\* call, through any reset, commit and get_state calls, the state holds no
\* internal buffer and no beam table, and get_state returns the empty tensor
\* of the static form of the external descriptor.
C20_LazyAllocation ==
    (IsKV /\ untouched) =>
        /\ IsNull(Deref(Self, 0))
        /\ m_internal_mem_ptr = NullPtr
        /\ IsNull(m_hidden_state)
        /\ IsNull(m_scale_zp)
        /\ m_internal_mem_max_size = 0
        /\ \A r \in GetStateResults(Self) :
              /\ r.status = "ok"
              /\ r.path = "empty"
              /\ r.mem.dims = to_static(m_external_desc).shape
              /\ r.mem.prc = m_external_desc.prc
              /\ Len(r.mem.data) = 0

C20_Witness ==
    /\ IsKV
    /\ untouched
    /\ sinceReset = "reset_commit"
    /\ op = "get_state"
    /\ ret.status = "ok"
    /\ ret.path = "empty"
    /\ ret.mem.dims = <<1, Heads, 0, Size>>
\* C21: reset() and commit() on a KVcache and commit() on a SingleBuffer
\* change no field but the reset flag: the buffers (object, dims, contents),
\* the beam table, the scale and zero point table, both capacity marks and
\* the tensor reference stay as they were.
C21_OnlyTheFlag ==
    [][((IsKV /\ op' \in {"reset", "commit"})
            \/ (variant = "SingleBuffer" /\ op' = "commit")) =>
        /\ m_internal_mem' = m_internal_mem
        /\ m_internal_mem_ptr' = m_internal_mem_ptr
        /\ m_hidden_state' = m_hidden_state
        /\ m_scale_zp' = m_scale_zp
        /\ m_internal_mem_max_size' = m_internal_mem_max_size
        /\ m_hidden_state_max_size' = m_hidden_state_max_size
        /\ m_state' = m_state
        /\ buffer_num' = buffer_num
        /\ reset_state_flag' = (op' = "reset")]_vars

C21_Witness ==
    /\ IsKV
    /\ op = "reset"
    /\ m_internal_mem_ptr \in HeapPtrs
    /\ Len(Deref(Self, 0).data) = MaxLen * MaxBatch * Heads * Size
    /\ Deref(Self, 0).data[1] = KvBase
    /\ ~IsNull(m_hidden_state)
    /\ m_internal_mem_max_size > 0
\* C22: DoubleBuffer: after reset() both buffers, the one in the input role
\* and the one in the output role, have the static form of the internal
\* descriptor and hold only zeros, and the role index is the one before
\* the reset.
C22_ResetBothBuffers ==
    [][(variant = "DoubleBuffer" /\ op' = "reset") =>
        /\ buffer_num' = buffer_num
        /\ \A p \in {input_mem(Self), output_mem(Self)} :
              LET mem == m_internal_mem'[p + 1]
              IN  /\ getDesc(mem) = to_static(m_internal_desc)
                  /\ Len(mem.data) = ElementsCount(to_static(m_internal_desc).shape)
                  /\ \A k \in 1..Len(mem.data) : mem.data[k] = 0]_vars

C22_Witness ==
    /\ variant = "DoubleBuffer"
    /\ op = "reset"
    /\ buffer_num = 1
    /\ ~untouched
    /\ IsDefined(m_internal_desc.shape)
    /\ Len(Deref(Self, 0).data) = 2
    /\ Len(Deref(Self, 1).data) = 2
\* the value of T at step m, batch b, head h, element e
StepValue(T, m, b, h, e) ==
    At(T.data, Offset(PermutedStrides(T, m_internal_desc.order), <<m, b, h, e>>))

\* the values of channel e of (b, h) in the steps g*G .. min((g+1)*G, L) - 1 of T
StepsOfGroup(T, g, b, h, e) ==
    LET L == PermutedDims(T, m_internal_desc.order)[1]
        n == Min(m_group_size, L - g * m_group_size)
    IN  AsTuple([i \in 1..n |-> StepValue(T, g * m_group_size + i - 1, b, h, e)])

\* C23: by-channel quantized set_state of a tensor of length L, group size
\* G: for every group g of the ceil(L/G) groups and every (b, h) the chunk
\* that is quantized is the steps g*G .. min((g+1)*G, L) - 1 of the tensor,
\* nothing is read outside the tensor, the bytes are written to the same
\* steps of the internal buffer, and the table of shape [2*ceil(L/G),B,H,S]
\* holds the scales of group g in row 2g and its zero points in row 2g+1.
C23_ByChannelChunks ==
    (IsKV /\ m_internal_desc.prc = "u8" /\ m_quant_by_channel /\ op = "set_state") =>
        LET order == m_internal_desc.order
            size  == PermutedDims(arg, order)
            G     == m_group_size
            mem   == Deref(Self, 0)
            st    == PermutedStrides(mem, order)
            groups == (size[1] + G - 1) \div G
        IN  /\ ~KV_quant_reads_outside(Self, arg)
            /\ m_scale_zp.dims = <<2 * groups, size[2], size[3], size[4]>>
            /\ \A b \in 0..(size[2] - 1), h \in 0..(size[3] - 1), e \in 0..(size[4] - 1) :
                  /\ \A g \in 0..(groups - 1) :
                        LET v == StepsOfGroup(arg, g, b, h, e)
                        IN  /\ ScaleZpAt(m_scale_zp, <<2 * g, b, h, e>>, 0) = QuantScale(v)
                            /\ ScaleZpAt(m_scale_zp, <<2 * g + 1, b, h, e>>, 0) = QuantZp(v)
                  /\ \A m \in 0..(size[1] - 1) :
                        LET v == StepsOfGroup(arg, m \div G, b, h, e)
                        IN  ReadAt(mem, RowOffset(st, m, b, h, e), 0)
                                = Quantize(StepValue(arg, m, b, h, e),
                                           QuantScale(v), QuantZp(v))
\* C24: by-group quantized storage, rows of S elements in groups of G: after
\* set_state every byte of the internal buffer was written, the table has
\* the shape [L,B,H,2*S/G], and get_state reads no element that was never
\* written, so every element of a row belongs to a group that is quantized
\* and dequantized - also when S is not a multiple of G.
C24_ByGroupCoversRow ==
    (IsKV /\ m_internal_desc.prc = "u8" /\ ~m_quant_by_channel /\ op = "set_state") =>
        LET mem  == Deref(Self, 0)
            size == PermutedDims(arg, m_internal_desc.order)
        IN  /\ m_scale_zp.dims
                    = <<size[1], size[2], size[3], (2 * size[4]) \div m_group_size>>
            /\ \A k \in 1..Len(mem.data) : mem.data[k] \in 0..255
            /\ ~KV_reads_outside(Self)
            /\ \A r \in GetStateResults(Self) : r.status = "ok"
\* the beam table of the state has the shape [B, L] of the buffer and
\* entries in [0, B)
BeamTableFits ==
    LET size == PermutedDims(Deref(Self, 0), m_internal_desc.order)
    IN  /\ ~IsNull(m_hidden_state)
        /\ m_hidden_state.dims = <<size[2], size[1]>>
        /\ \A k \in 1..Len(m_hidden_state.data) :
              m_hidden_state.data[k] \in 0..(size[2] - 1)

\* the values set_state(T) quantized together with the byte it stored at
\* step m, batch b, head h, element e of the internal buffer
QuantizedWith(T, m, b, h, e) ==
    LET order  == m_internal_desc.order
        ext_st == PermutedStrides(T, order)
        size   == PermutedDims(T, order)
    IN  IF m_quant_by_channel
        THEN QuantChannel(Self, T, ext_st, size, m \div m_group_size, b, h, e)
        ELSE QuantGroup(Self, T, ext_st, e \div m_group_size, m, b, h)

C26_CapacityMarks ==
    [][IsKV =>
        IF op' = "set_state"
        THEN LET size == PermutedDims(arg', m_internal_desc.order)
             IN  /\ m_internal_mem_max_size' = size[1] * size[2] * size[3] * size[4]
                 /\ m_internal_mem_max_size' = Len(m_internal_mem'[1].data)
                 /\ m_hidden_state_max_size' = size[2] * size[1]
                 /\ m_hidden_state_max_size' = Len(m_hidden_state'.data)
        ELSE /\ m_internal_mem_max_size' = m_internal_mem_max_size
             /\ m_hidden_state_max_size' = m_hidden_state_max_size]_vars

C26_Witness ==
    /\ IsKV
    /\ op = "assign_internal_state"
    /\ Len(Deref(Self, 0).data) = Heads * Size
    /\ m_internal_mem_max_size = MaxLen * MaxBatch * Heads * Size
    /\ m_hidden_state_max_size = MaxBatch * MaxLen
\* C30 as stated: KVcache get_state() takes the empty path exactly when no
\* internal buffer is allocated or the reset flag is set, and in every other
\* state it takes the reorder path and returns a tensor with the buffer's
\* current dims.
C30_EmptyIffNoBufferOrFlag ==
    (IsKV /\ op = "get_state") =>
        LET mem == Deref(Self, 0)
        IN  IF IsNull(mem) \/ reset_state_flag
            THEN ret.status = "ok" /\ ret.path = "empty"
            ELSE /\ ret.status = "ok" /\ ret.path = "reorder"
                 /\ ret.mem.dims = mem.dims

\* C30: KVcache get_state() takes the empty path exactly when no internal
\* buffer is allocated, or no beam table is allocated, or the reset flag is
\* set; its tensor then has the static form of the external shape.  In every
\* other state (a buffer from assign_internal_state included) it enters the
\* reorder path: it throws when the buffer's dims do not fit the external
\* shape or its layout fails the assertions of the path; otherwise it runs
\* the reorder loop, and the tensor it returns has the buffer's current
\* dims (the loop can only break off where it reads outside an allocation).
C30_EmptyPath ==
    (IsKV /\ op = "get_state") =>
        LET mem == Deref(Self, 0)
        IN  IF IsNull(mem) \/ IsNull(m_hidden_state) \/ reset_state_flag
            THEN /\ ret.status = "ok" /\ ret.path = "empty"
                 /\ ret.mem.dims = to_static(m_external_desc).shape
            ELSE IF \/ cloneThrows(m_external_desc, mem.dims)
                    \/ ~KV_layout_asserted(Self, mem,
                           NewMemory(cloneWithNewDims(m_external_desc, mem.dims)))
            THEN ret = Failure
            ELSE \/ /\ ret.status = "ok" /\ ret.path = "reorder"
                    /\ ret.mem.dims = mem.dims
                 \/ /\ ret.status = "crash" /\ ret.path # "empty"
                    /\ KV_reads_outside(Self)

C30_Witness ==
    /\ IsKV /\ op = "get_state"
    /\ m_internal_mem_ptr = OrchestratorPtr
    /\ ~IsNull(Deref(Self, 0)) /\ ~IsNull(m_hidden_state) /\ ~reset_state_flag
    /\ ret.path = "reorder"
    /\ ret.mem.dims = Deref(Self, 0).dims
    /\ ret.mem.dims # to_static(m_external_desc).shape

\* a buffer is present, the flag is clear, there is no beam table: empty path
C30_NoBeamTableWitness ==
    /\ IsKV /\ op = "get_state"
    /\ ~IsNull(Deref(Self, 0)) /\ IsNull(m_hidden_state) /\ ~reset_state_flag
    /\ ret.path = "empty"
\* the worker whose position the step changed
Stepped(w) ==
    \/ loop'.next[w] # loop.next[w]
    \/ loop'.phase[w] # loop.phase[w]

\* the step is one statement of exactly one worker, of an iteration it owns
OneWorkerStepped(w) ==
    /\ Stepped(w)
    /\ \A v \in (1..loop.nthr) \ {w} : ~Stepped(v)
    /\ loop.next[w] >= splitter_start(Len(loop.hits), loop.nthr, w - 1)
    /\ loop.next[w] < splitter_end(Len(loop.hits), loop.nthr, w - 1)

\* the logical coordinates (in the order [L,B,H,S]) of element k of mem
CoordsOf(mem, order, k) ==
    LET idx == IndexAt(mem.dims, Strides(mem.dims, mem.order), k - 1)
    IN  <<At(idx, order[1]), At(idx, order[2]), At(idx, order[3]), At(idx, order[4])>>

\* C27: KVcache get_state: whatever the number of workers and the
\* interleaving of their steps, a step of the iteration (m,b,h) changes
\* nothing but the scratch buffer of its own worker index and the output
\* row (m,b,h), the row it stores is the row of the sequential result
\* whatever the other rows hold at that time, the state object is only read,
\* and the tensor returned when the loop is over is elementwise the one of
\* the sequential (m,b,h) order.
C27_IndependentIterations ==
    [][/\ (loop.call = "get_state" /\ loop'.call = "get_state") =>
            \E w \in 1..loop.nthr :
                LET it    == IterationAt(loop.D, loop.next[w])
                    order == m_internal_desc.order
                    seq   == get_state(Self, loop.junk).mem
                IN  /\ OneWorkerStepped(w)
                    /\ \A i \in 1..Len(loop.scratch) :
                          loop'.scratch[i] # loop.scratch[i] => i = w
                    /\ \A k \in 1..Len(loop.out.data) :
                          LET c == CoordsOf(loop.out, order, k)
                          IN  IF <<c[1], c[2], c[3]>> = it /\ loop'.next[w] # loop.next[w]
                              THEN loop'.out.data[k] = seq.data[k]
                              ELSE loop'.out.data[k] = loop.out.data[k]
                    /\ UNCHANGED fields
       /\ (loop.call = "get_state" /\ loop'.call = "none") =>
            /\ ret'.status = "ok"
            /\ ret'.mem = get_state(Self, loop.junk).mem
            /\ \A k \in 1..Len(loop.hits) : loop.hits[k] = 1]_vars

C27_Witness ==
    /\ loop.call = "get_state"
    /\ m_internal_desc.prc = "u8"
    /\ loop.nthr = 2
    /\ loop.phase = <<1, 1>>
    /\ loop.next[1] > 0 /\ loop.next[2] > loop.last[1]
    /\ m_hidden_state = BeamTable(MaxBatch, MaxLen, "skew")
    /\ loop.scratch[1] # loop.scratch[2]

\* C28: quantized KVcache set_state: a step of an iteration changes nothing
\* but the scratch buffer of its own worker index, the elements of the
\* internal buffer in its rows ((group,b,h): the steps of the group; (b,h,m):
\* row m) and its slots of the table; no element and no slot is written by
\* two iterations; the scratch vector has one buffer per worker, so two
\* workers inside an iteration use different buffers; and when the loop is
\* over buffer and table are those of the sequential order, whatever the
\* interleaving was.
C28_DisjointWrites ==
    [][/\ (loop.call = "set_state" /\ loop'.call = "set_state") =>
            \E w \in 1..loop.nthr :
                LET it    == IterationAt(loop.D, loop.next[w])
                    order == m_internal_desc.order
                    G     == m_group_size
                    mem   == Deref(Self, 0)
                IN  /\ OneWorkerStepped(w)
                    /\ \A i \in 1..Len(loop.scratch) :
                          loop'.scratch[i] # loop.scratch[i] => i = w
                    /\ \A k \in 1..Len(mem.data) :
                          LET c == CoordsOf(mem, order, k)
                          IN  m_internal_mem'[1].data[k] # mem.data[k] =>
                                IF m_quant_by_channel
                                THEN <<c[1] \div G, c[2], c[3]>> = it
                                ELSE <<c[2], c[3], c[1]>> = it
                    /\ \A k \in 1..Len(m_scale_zp.data) :
                          LET c == CoordsOf(m_scale_zp, PlainOrder(4), k)
                          IN  m_scale_zp'.data[k] # m_scale_zp.data[k] =>
                                IF m_quant_by_channel
                                THEN <<c[1] \div 2, c[2], c[3]>> = it
                                ELSE <<c[2], c[3], c[1]>> = it
                    /\ \A k \in 1..Len(mem.data) : loop'.mem_writes[k] <= 1
                    /\ \A k \in 1..Len(m_scale_zp.data) : loop'.tab_writes[k] <= 1
                    /\ Len(loop.scratch) >= loop.nthr
                    /\ \A u, v \in 1..loop.nthr :
                          (u # v /\ loop'.phase[u] = 1 /\ loop'.phase[v] = 1) =>
                              ScratchOf(u - 1) # ScratchOf(v - 1)
       /\ (loop.call = "set_state" /\ loop'.call = "none") =>
            LET s == [Self EXCEPT !.junk = loop.junk]
                dense_internal_desc == getDesc(Deref(Self, 0))
            IN  /\ m_internal_mem'[1] = KV_quantized_mem(s, m_state, dense_internal_desc)
                /\ m_scale_zp' = KV_quantized_scale_zp(s, m_state, dense_internal_desc)
                /\ \A k \in 1..Len(loop.hits) : loop.hits[k] = 1]_vars

C28_Witness ==
    /\ loop.call = "set_state"
    /\ loop.nthr = 2
    /\ loop.phase = <<1, 1>>
    /\ loop.next[1] > 0 /\ loop.next[2] > loop.last[1]
    /\ loop.scratch[1] # loop.scratch[2]
    /\ \E k \in 1..Len(loop.mem_writes) : loop.mem_writes[k] = 1
    /\ \E k \in 1..Len(loop.mem_writes) : loop.mem_writes[k] = 0

C29_ReturnsOrCrashes ==
    (loop.call \in {"get_state", "set_state"}) ~> (loop.call \in {"none", "crashed"})

\* while a loop runs every iteration is run at most once, and the call
\* returns only when every iteration was run once
C29_OnceEach ==
    [][(loop.call \in {"get_state", "set_state"}) =>
        /\ \A k \in 1..Len(loop.hits) : loop.hits[k] <= 1
        /\ loop'.call = "none" => \A k \in 1..Len(loop.hits) : loop.hits[k] = 1]_vars
\* C31: every variant: a get_state() call, whether it returns a tensor or
\* fails, leaves the reset flag, the role index, every internal buffer
\* (identity, dims, contents), the beam table, the scale and zero point
\* table, the capacity marks and the retained tensor as they were; hence
\* what a second get_state() can return is what the first one could.
C31_ReadOnly ==
    [][op' = "get_state" =>
        /\ reset_state_flag' = reset_state_flag
        /\ buffer_num' = buffer_num
        /\ m_internal_mem' = m_internal_mem
        /\ m_internal_mem_ptr' = m_internal_mem_ptr
        /\ m_hidden_state' = m_hidden_state
        /\ m_scale_zp' = m_scale_zp
        /\ m_internal_mem_max_size' = m_internal_mem_max_size
        /\ m_hidden_state_max_size' = m_hidden_state_max_size
        /\ m_state' = m_state
        /\ GetStateResults(Self') = GetStateResults(Self)
        /\ ret' \in GetStateResults(Self')]_vars

C31_Witness ==
    /\ op = "get_state"
    /\ variant = "DoubleBuffer"
    /\ buffer_num = 1
    /\ ret = Failure
    /\ nCommits > 0

\* a get_state() of a KV cache that returned a reordered tensor
C31_KvWitness ==
    /\ op = "get_state"
    /\ IsKV
    /\ ret.path = "reorder"
    /\ m_internal_mem_ptr \in HeapPtrs
\* C32: DoubleBuffer: in every reachable state input_mem() and output_mem()
\* are different buffers, each of the two buffers given to the constructor
\* is in exactly one of the two roles, and neither is null.
C32_RolesNeverAlias ==
    variant = "DoubleBuffer" =>
        /\ input_mem(Self) # output_mem(Self)
        /\ {input_mem(Self), output_mem(Self)} = {0, 1}
        /\ input_mem(Self) = prime_mem(Self)
        /\ output_mem(Self) = second_mem(Self)
        /\ Len(m_internal_mem) = 2
        /\ ~IsNull(Deref(Self, input_mem(Self)))
        /\ ~IsNull(Deref(Self, output_mem(Self)))

C32_Witness ==
    /\ variant = "DoubleBuffer"
    /\ op = "set_state"
    /\ nCommits >= 2
    /\ ~untouched
    /\ buffer_num = 1
\* a buffer in the form a constructor leaves: static dims, every element 0
InitialForm(mem) ==
    /\ mem.dims = to_static(m_internal_desc).shape
    /\ \A k \in 1..Len(mem.data) : mem.data[k] = 0

\* C33: right after the construction of a DoubleBuffer both buffers are in
\* the initial form (zero-filled, or redefined to the static shape with every
\* undefined dimension 0), and as long as no set_state, no assign hook and no
\* external write happened, get_state() returns the zero/empty value after
\* any number of commit() calls; likewise for a SingleBuffer.
C33_InitialForm ==
    /\ (IsBuffer /\ op = "init") =>
            \A p \in 0..(Len(m_internal_mem) - 1) : InitialForm(Deref(Self, p))
    /\ (IsBuffer /\ untouched) =>
            \A r \in GetStateResults(Self) : ReturnsEmpty(r, Self)

\* C33, the part that holds: the buffer in the input role at construction is
\* in the initial form, and get_state() returns the zero/empty value while
\* nothing was written and that buffer is the one read (no commit yet, an
\* even number of commits, a reset before, or a SingleBuffer).
C33_PrimeInitialForm ==
    /\ (IsBuffer /\ op = "init") => InitialForm(Deref(Self, input_mem(Self)))
    /\ (IsBuffer /\ untouched
            /\ (variant = "SingleBuffer" \/ buffer_num = 0 \/ sinceReset # "no")) =>
            \A r \in GetStateResults(Self) : ReturnsEmpty(r, Self)

C33_PrimeWitness ==
    /\ variant = "DoubleBuffer"
    /\ untouched
    /\ nCommits = 2
    /\ op = "get_state"
    /\ ReturnsEmpty(ret, Self)
\* C34: KVcache: whenever get_state() runs its reorder loop, every beam
\* table cell it reads exists (b below the table's rows, m below its
\* columns), every batch index b_kv it takes from the table is in 0..B-1 and
\* the row (m, b_kv, h) lies inside the internal buffer, and with u8 storage
\* every scale and zero point slot it reads lies inside the table; also in
\* states the assign hooks produced.
C34_ReadsInRange ==
    (IsKV /\ KV_get_state(Self, 0).path = "reorder") =>
        LET mem    == Deref(Self, 0)
            hidden == m_hidden_state
            size   == PermutedDims(mem, mem.order)
        IN  /\ \A m \in 0..(size[1] - 1), b \in 0..(size[2] - 1) :
                  /\ b < hidden.dims[1]
                  /\ m < hidden.dims[2]
                  /\ At(hidden.data, b * hidden.dims[2] + m) \in 0..(size[2] - 1)
            /\ ~KV_reads_outside(Self)

\* C34, the part that holds: in the state a set_state leaves the loop reads
\* inside the beam table, the buffer and the scale and zero point table.
C34_ReadsInRangeAfterSetState ==
    (IsKV /\ op = "set_state" /\ KV_get_state(Self, 0).path = "reorder") =>
        ~KV_reads_outside(Self)
\* C35: KVcache: a set_state that fails leaves the state as it was: the
\* internal buffer (object, dims, contents), the beam table, the scale and
\* zero point table, both capacity marks, the retained input tensor and the
\* reset flag are unchanged, and get_state() returns what it returned before.
C35_FailedLeavesState ==
    [][(IsKV /\ op' = "set_state_failed") =>
        /\ m_internal_mem' = m_internal_mem
        /\ m_internal_mem_ptr' = m_internal_mem_ptr
        /\ m_hidden_state' = m_hidden_state
        /\ m_scale_zp' = m_scale_zp
        /\ m_internal_mem_max_size' = m_internal_mem_max_size
        /\ m_hidden_state_max_size' = m_hidden_state_max_size
        /\ reset_state_flag' = reset_state_flag
        /\ m_state' = m_state
        /\ GetStateResults(Self') = GetStateResults(Self)]_vars

\* C35, the part that holds: a failed set_state of a KVcache changes nothing
\* but the retained tensor, which is the rejected one afterwards.
C35_FailedLeavesAllButTensor ==
    [][(IsKV /\ op' = "set_state_failed") =>
        /\ m_internal_mem' = m_internal_mem
        /\ m_internal_mem_ptr' = m_internal_mem_ptr
        /\ m_hidden_state' = m_hidden_state
        /\ m_scale_zp' = m_scale_zp
        /\ m_internal_mem_max_size' = m_internal_mem_max_size
        /\ m_hidden_state_max_size' = m_hidden_state_max_size
        /\ reset_state_flag' = reset_state_flag
        /\ m_state' = arg'
        /\ GetStateResults(Self') = GetStateResults(Self)]_vars
\* C36: DoubleBuffer: a set_state call, failed ones included, leaves the
\* role index and the dims and contents of the buffer in the output role as
\* they were; a successful one gives the buffer in the input role the dims
\* of the tensor and leaves the other slot's buffer in the output role.
C36_WritesInputRoleOnly ==
    [][(variant = "DoubleBuffer" /\ op' \in {"set_state", "set_state_failed"}) =>
        /\ buffer_num' = buffer_num
        /\ output_mem(Self') = output_mem(Self)
        /\ Deref(Self', output_mem(Self)).dims = Deref(Self, output_mem(Self)).dims
        /\ Deref(Self', output_mem(Self)).data = Deref(Self, output_mem(Self)).data
        /\ op' = "set_state" => Deref(Self', input_mem(Self)).dims = arg'.dims
        /\ op' = "set_state_failed" => m_internal_mem' = m_internal_mem]_vars

C36_Witness ==
    /\ variant = "DoubleBuffer"
    /\ op = "set_state"
    /\ nCommits >= 1
    /\ Deref(Self, output_mem(Self)).dims # Deref(Self, input_mem(Self)).dims
    /\ Len(Deref(Self, output_mem(Self)).data) > 0
    /\ Deref(Self, output_mem(Self)).data[1] > 0
    /\ Len(Deref(Self, input_mem(Self)).data) > 0
\* C37: KVcache: set_state holds its reference to the caller's tensor for
\* exactly the duration of the call: while the call runs (from before the
\* first read of the tensor's memory on) the state refers to the tensor, and
\* when no call runs the state refers to no input tensor.
C37_HeldForTheCall ==
    IsKV =>
        /\ loop.call = "set_state" => (~IsNull(m_state) /\ m_state = arg)
        /\ loop.call = "none" => IsNull(m_state)

\* C37, the part that holds: the reference is taken when the call begins
\* and is held in every state of the call in which a worker has yet to read
\* the tensor; it is still held when the call has returned or failed.
C37_HeldWhileRead ==
    [][IsKV =>
        /\ loop'.call = "set_state" => (~IsNull(m_state') /\ m_state' = arg')
        /\ (\E w \in 1..MaxWorkers : Pending("set_state", w)) => m_state = arg
        /\ (op' \in {"set_state", "set_state_failed"} /\ loop.call # "none")
                => m_state' = arg'
        /\ (op' \in {"set_state", "set_state_failed"} /\ arg' # arg)
                => m_state' = arg']_vars
====
